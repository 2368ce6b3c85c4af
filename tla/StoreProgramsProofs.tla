-------------------------- MODULE StoreProgramsProofs --------------------------
(***************************************************************************)
(* Proofs about the programs of MCStorePrograms side by side, as its run   *)
(* checks them.  What StoreProofs proves of a component for all constants  *)
(* is carried over by instantiating that module as MCStorePrograms         *)
(* instantiates the component.                                             *)
(***************************************************************************)
EXTENDS MCStorePrograms, FiniteSetTheorems, TLAPS

Grants == INSTANCE StoreProofs WITH
    Requests <- {R1, R2}, Instances <- {"x", "y"}, Configured <- [i \in {"x", "y"} |->
        IF i = "x" THEN 0 ELSE 10], Default <- 10, Events <- {"a", "b"},
    EventBits <- [e \in {"a", "b"} |-> IF e = "a" THEN {1, 2} ELSE {2, 3}],
    Keys <- {"k1", "k2", "k3"}, KeyBits <- [k1 |-> {1, 2}, k2 |-> {2, 3}, k3 |-> {1, 3}],
    TokenRequests <- {TokenRequest("customer", {"checkout:submit"}, 1),
                      TokenRequest("customer", {"read"}, 2)},
    Checkouts <- SomeCheckouts, MaxTokens <- 1, GuardTime <- 1, Sessions <- {1},
    SessionRequests <- {TokenRequest("customer", {"profile:read"}, 1),
                        TokenRequest("guest", {"other"}, 6), TokenRequest("none", {}, 2)},
    AccessTTL <- 2, RefreshTTL <- 2, MaxDelay <- 1, RefreshTime <- 5,
    SKUs <- {1, 2}, PageSize <- 1, MaxVersion <- 2,
    Identities <- SomeIdentities, MaxAttempts <- 2, MaxMessages <- 3,
    Orders <- {"o1"}, Commands <- {"c1", "c2", "c3"}, Nobody <- "nobody",
    OrderIDs <- {1}, OrderLines <- {1, 2}, Price <- OneToOne, Quantities <- {0, 1, 2},
    Edited <- EditedLines, MaxEvents <- 2,
    AuditCalls <- SomeAudits, RecordedAt <- <<1, 3, 2>>, MaximumConcurrent <- 1,
    Nodes <- {"a", "b"}, NodeID <- [a |-> "api-1", b |-> "api-1"],
    MaxRestarts <- [a |-> 1, b |-> 0], TTLs <- {0, 1}, MaxTTL <- 1, Capacity <- 2, KeyTTL <- 2, MaxKeys <- 2,
    JwtTokens <- 1, JwtTime <- 2, CrudIDs <- {1, 2}, CrudLimit <- 1

LEMMA PairsAreFinite ==
    \A a, b : Grants!Redis!IsFiniteSet({a, b}) /\ Grants!Guard!IsFiniteSet({a, b})
<1> TAKE a, b
<1>1. IsFiniteSet({a} \union {b})
  BY FS_Singleton, FS_AddElement
<1>2. {a} \union {b} = {a, b}
  OBVIOUS
<1>3. IsFiniteSet({a, b})
  BY <1>1, <1>2, Zenon
<1> QED
  BY <1>3, Zenon DEF Grants!Redis!IsFiniteSet, Grants!Guard!IsFiniteSet, IsFiniteSet

LEMMA PairIsFinite ==
    \A S, a, b : S = {a, b} => Grants!Guard!IsFiniteSet(S)
BY PairsAreFinite, Zenon

LEMMA GrantConstants ==
    /\ Grants!Redis!AdmissionAssumption
    /\ Grants!Guard!GuardAssumption
    /\ Grants!Refresh!RefreshAssumption
<1>1. Grants!Redis!AdmissionAssumption
  <2> DEFINE bits == [e \in {"a", "b"} |-> IF e = "a" THEN {1, 2} ELSE {2, 3}]
  <2>1. bits["a"] = {1, 2} /\ bits["b"] = {2, 3}
    OBVIOUS
  <2>2. \A e \in {"a", "b"} : bits[e] # {} /\ (bits[e] = {1, 2} \/ bits[e] = {2, 3})
    BY <2>1
  <2>3. \A e \in {"a", "b"} : Grants!Redis!IsFiniteSet(bits[e])
    BY <2>2, PairsAreFinite, Zenon
  <2> QED
    BY <2>2, <2>3 DEF Grants!Redis!AdmissionAssumption
<1>2. Grants!Guard!GuardAssumption
  <2>1. \A price, quantity, category :
           LET lines == Lines(price, quantity, category) IN DOMAIN lines = 1 .. Len(lines)
    BY DEF Lines
  <2>2. LET lines == Lines(5050, 3, "service") \o Lines(1050, 1, "tax_exempt")
        IN  DOMAIN lines = 1 .. Len(lines)
    BY DEF Lines
  <2>3. ASSUME NEW c \in SomeCheckouts
        PROVE  c.key \in {"k1", "k2", "k3", "none"} /\ DOMAIN c.lines = 1 .. Len(c.lines)
    <3>1. PICK key, lines : /\ key \in {"k1", "k2", "k3", "none"}
                            /\ DOMAIN lines = 1 .. Len(lines)
                            /\ c = Checkout(key, lines)
      BY <2>1, <2>2 DEF SomeCheckouts
    <3> QED
      BY <3>1 DEF Checkout
  <2> DEFINE bits == [k1 |-> {1, 2}, k2 |-> {2, 3}, k3 |-> {1, 3}]
  <2>4. bits["k1"] = {1, 2} /\ bits["k2"] = {2, 3} /\ bits["k3"] = {1, 3}
    OBVIOUS
  <2>5. \A k \in {"k1", "k2", "k3"} :
           bits[k] # {} /\ (bits[k] = {1, 2} \/ bits[k] = {2, 3} \/ bits[k] = {1, 3})
    BY <2>4
  <2>6. \A k \in {"k1", "k2", "k3"} : Grants!Guard!IsFiniteSet(bits[k])
    <3>1. /\ Grants!Guard!IsFiniteSet(bits["k1"])
          /\ Grants!Guard!IsFiniteSet(bits["k2"])
          /\ Grants!Guard!IsFiniteSet(bits["k3"])
      <4> HIDE DEF bits
      <4> QED
        BY <2>4, PairIsFinite
    <3> HIDE DEF bits
    <3> QED
      BY <3>1, Zenon
  <2> QED
    BY <2>3, <2>5, <2>6 DEF Grants!Guard!GuardAssumption, Grants!Guard!NoKey, TokenRequest
<1>3. Grants!Refresh!RefreshAssumption
  BY DEF Grants!Refresh!RefreshAssumption, TokenRequest
<1> QED
  BY <1>1, <1>2, <1>3

LEMMA SameRedis ==
    /\ Redis!Init => Grants!Redis!Init
    /\ Redis!Next => Grants!Redis!Next
<1>1. Redis!Init => Grants!Redis!Init
  BY Zenon DEF Redis!Init, Grants!Redis!Init, Redis!NoCall, Grants!Redis!NoCall,
         Redis!NoReads, Grants!Redis!NoReads
<1>2. Redis!Next => Grants!Redis!Next
  BY Zenon DEF Redis!Next, Grants!Redis!Next, Redis!NewService,
         Grants!Redis!NewService, Redis!Stop, Grants!Redis!Stop, Redis!Calls,
         Grants!Redis!Calls, Redis!Arrive, Grants!Redis!Arrive, Redis!Put,
         Grants!Redis!Put, Redis!Stats, Grants!Redis!Stats, Redis!RedisFails,
         Grants!Redis!RedisFails, Redis!Admit, Grants!Redis!Admit, Redis!Reply,
         Grants!Redis!Reply, Redis!NewStringBloomFilter, Grants!Redis!NewStringBloomFilter,
         Redis!bloomConfig, Grants!Redis!bloomConfig, Redis!requestVars,
         Grants!Redis!requestVars, Redis!NoCall, Grants!Redis!NoCall, Redis!NoReads,
         Grants!Redis!NoReads, Redis!Answer, Grants!Redis!Answer, Redis!Goto,
         Grants!Redis!Goto, Redis!Changes, Grants!Redis!Changes, Redis!TakesEffect,
         Grants!Redis!TakesEffect, Redis!Decision, Grants!Redis!Decision,
         Redis!Cardinality, Grants!Redis!Cardinality
<1> QED
  BY <1>1, <1>2

LEMMA SameRefresh ==
    /\ Refresh!Init => Grants!Refresh!Init
    /\ Refresh!Next => Grants!Refresh!Next
<1>1. Refresh!Init => Grants!Refresh!Init
  BY Zenon DEF Refresh!Init, Grants!Refresh!Init, Refresh!Nothing,
         Grants!Refresh!Nothing
<1>2. Refresh!Next => Grants!Refresh!Next
  BY Zenon DEF Refresh!Next, Grants!Refresh!Next, Refresh!Tick, Grants!Refresh!Tick,
         Refresh!IssueSession, Grants!Refresh!IssueSession, Refresh!ValidateAccess,
         Grants!Refresh!ValidateAccess, Refresh!RefreshAccess, Grants!Refresh!RefreshAccess,
         Refresh!Refused, Grants!Refresh!Refused, Refresh!ComposeRefresh,
         Grants!Refresh!ComposeRefresh, Refresh!NextIDFails, Grants!Refresh!NextIDFails,
         Refresh!Reissue, Grants!Refresh!Reissue, Refresh!Reply, Grants!Refresh!Reply,
         Refresh!Composing, Grants!Refresh!Composing, Refresh!validateSessionRequest,
         Grants!Refresh!validateSessionRequest, Refresh!Started, Grants!Refresh!Started,
         Refresh!AccessToken, Grants!Refresh!AccessToken, Refresh!Goto,
         Grants!Refresh!Goto, Refresh!Answer, Grants!Refresh!Answer,
         Refresh!parseToken, Grants!Refresh!parseToken, Refresh!MeetsAccessContract,
         Grants!Refresh!MeetsAccessContract, Refresh!MeetsRefreshContract,
         Grants!Refresh!MeetsRefreshContract, Refresh!RefreshToken,
         Grants!Refresh!RefreshToken, Refresh!Nothing, Grants!Refresh!Nothing
<1> QED
  BY <1>1, <1>2

LEMMA SameGuard ==
    /\ Guard!Init => Grants!Guard!Init
    /\ Guard!Next => Grants!Guard!Next
<1>1. Guard!Init => Grants!Guard!Init
  BY Zenon DEF Guard!Init, Grants!Guard!Init, Guard!NoCheckout,
         Grants!Guard!NoCheckout, Guard!Quote, Grants!Guard!Quote, Guard!NoKey,
         Grants!Guard!NoKey
<1>2. Guard!Next => Grants!Guard!Next
  BY Zenon DEF Guard!Next, Grants!Guard!Next, Guard!IssueToken,
         Grants!Guard!IssueToken, Guard!Tick, Grants!Guard!Tick, Guard!GuardCheckout,
         Grants!Guard!GuardCheckout, Guard!Unauthorized, Grants!Guard!Unauthorized,
         Guard!admit, Grants!Guard!admit, Guard!nextID, Grants!Guard!nextID,
         Guard!Reply, Grants!Guard!Reply, Guard!validateTokenRequest,
         Grants!Guard!validateTokenRequest, Guard!Answer, Grants!Guard!Answer,
         Guard!MeetsContract, Grants!Guard!MeetsContract, Guard!Refusal,
         Grants!Guard!Refusal, Guard!Goto, Grants!Guard!Goto, Guard!MightContain,
         Grants!Guard!MightContain, Guard!priceCheckout, Grants!Guard!priceCheckout,
         Guard!NoCheckout, Grants!Guard!NoCheckout, Guard!Quote, Grants!Guard!Quote,
         Guard!FirstFault, Grants!Guard!FirstFault, Guard!normalizeCheckoutRequest,
         Grants!Guard!normalizeCheckoutRequest, Guard!PriceFault, Grants!Guard!PriceFault,
         Guard!Round, Grants!Guard!Round, Guard!applyDiscountRule,
         Grants!Guard!applyDiscountRule, Guard!applyTaxRule, Grants!Guard!applyTaxRule,
         Guard!NoKey, Grants!Guard!NoKey, Guard!LineFault, Grants!Guard!LineFault,
         Guard!NoPrice, Grants!Guard!NoPrice, Guard!Minor, Grants!Guard!Minor,
         Guard!Min, Grants!Guard!Min, Guard!FoldLeft, Grants!Guard!FoldLeft,
         Guard!MapThenFoldSet, Grants!Guard!MapThenFoldSet, Guard!Max,
         Grants!Guard!Max
<1> QED
  BY <1>1, <1>2

LEMMA RowConstants ==
    /\ Grants!Order!ServiceAssumption
    /\ Grants!Command!CommandAssumption
    /\ Grants!History!HistoryAssumption
    /\ Grants!Catalog!CatalogAssumption
    /\ Grants!Audit!AuditAssumption
    /\ Grants!Jwt!JwtAssumption
<1>1. Grants!Order!ServiceAssumption
  BY OrderConstants, Zenon DEF Order!ServiceAssumption, Grants!Order!ServiceAssumption,
     Order!IsFiniteSet, Grants!Order!IsFiniteSet
<1>2. Grants!Command!CommandAssumption
  BY CommandConstants, Zenon DEF Command!CommandAssumption, Grants!Command!CommandAssumption
<1>3. Grants!History!HistoryAssumption
  BY HistoryConstants, Zenon DEF History!HistoryAssumption, Grants!History!HistoryAssumption
<1>4. Grants!Catalog!CatalogAssumption
  BY CatalogConstants, Zenon DEF Catalog!CatalogAssumption, Grants!Catalog!CatalogAssumption
<1>5. Grants!Audit!AuditAssumption
  BY AuditConstants, Zenon DEF Audit!AuditAssumption, Grants!Audit!AuditAssumption
<1>6. Grants!Jwt!JwtAssumption
  BY JwtConstants, Zenon DEF Jwt!JwtAssumption, Grants!Jwt!JwtAssumption
<1> QED
  BY <1>1, <1>2, <1>3, <1>4, <1>5, <1>6

LEMMA SameOrder ==
    /\ Order!Init => Grants!Order!Init
    /\ Order!Next => Grants!Order!Next
<1>1. Order!Init => Grants!Order!Init
  BY Zenon DEF Order!Init, Grants!Order!Init, Order!NoCall, Grants!Order!NoCall,
         Order!NoItems, Grants!Order!NoItems, Order!NoView, Grants!Order!NoView,
         Order!NoTotal, Grants!Order!NoTotal
<1>2. Order!Next => Grants!Order!Next
  BY Zenon DEF Order!Next, Grants!Order!Next, Order!StartCreate, Grants!Order!StartCreate,
         Order!StartOther, Grants!Order!StartOther, Order!Expire, Grants!Order!Expire,
         Order!Advance, Grants!Order!Advance, Order!Fresh, Grants!Order!Fresh, Order!Valid,
         Grants!Order!Valid, Order!Cents, Grants!Order!Cents, Order!Goto, Grants!Order!Goto,
         Order!tableVars, Grants!Order!tableVars, Order!StatementFails,
         Grants!Order!StatementFails, Order!InsertOrder, Grants!Order!InsertOrder,
         Order!InsertItems, Grants!Order!InsertItems, Order!FindOrder,
         Grants!Order!FindOrder, Order!FindItem, Grants!Order!FindItem,
         Order!UpdateQuantity, Grants!Order!UpdateQuantity, Order!SumOrderTotal,
         Grants!Order!SumOrderTotal, Order!UpdateTotal, Grants!Order!UpdateTotal,
         Order!Append, Grants!Order!Append, Order!Commit, Grants!Order!Commit,
         Order!CommitFails, Grants!Order!CommitFails, Order!ReadOrder,
         Grants!Order!ReadOrder, Order!ReadItems, Grants!Order!ReadItems, Order!ReadEvents,
         Grants!Order!ReadEvents, Order!Reply, Grants!Order!Reply, Order!NoTotal,
         Grants!Order!NoTotal, Order!Taken, Grants!Order!Taken, Order!MapThenSumSet,
         Grants!Order!MapThenSumSet, Order!Fail, Grants!Order!Fail, Order!EditsItem,
         Grants!Order!EditsItem, Order!EditsHeader, Grants!Order!EditsHeader,
         Order!CommitTables, Grants!Order!CommitTables, Order!NoCall, Grants!Order!NoCall,
         Order!NoItems, Grants!Order!NoItems, Order!NoView, Grants!Order!NoView,
         Order!MapThenFoldSet, Grants!Order!MapThenFoldSet
<1> QED
  BY <1>1, <1>2

LEMMA SameCommand ==
    /\ Command!Init => Grants!Command!Init
    /\ Command!Next => Grants!Command!Next
<1>1. Command!Init => Grants!Command!Init
  BY Zenon DEF Command!Init, Grants!Command!Init, Command!NoIdentity,
         Grants!Command!NoIdentity, Command!NoRecord, Grants!Command!NoRecord
<1>2. Command!Next => Grants!Command!Next
  BY Zenon DEF Command!Next, Grants!Command!Next, Command!Start, Grants!Command!Start,
         Command!Interrupted, Grants!Command!Interrupted, Command!Advance,
         Grants!Command!Advance, Command!Goto, Grants!Command!Goto, Command!Stop,
         Grants!Command!Stop, Command!InsertOrder, Grants!Command!InsertOrder,
         Command!Enqueue, Grants!Command!Enqueue, Command!Commit, Grants!Command!Commit,
         Command!Commands, Grants!Command!Commands, Command!Claim, Grants!Command!Claim,
         Command!NothingToClaim, Grants!Command!NothingToClaim, Command!Publish,
         Grants!Command!Publish, Command!StoreResult, Grants!Command!StoreResult,
         Command!Verify, Grants!Command!Verify, Command!PrintResult,
         Grants!Command!PrintResult, Command!NoIdentity, Grants!Command!NoIdentity,
         Command!NoRecord, Grants!Command!NoRecord
<1> QED
  BY <1>1, <1>2

LEMMA SameHistory ==
    /\ History!Init => Grants!History!Init
    /\ History!Next => Grants!History!Next
<1>1. History!Init => Grants!History!Init
  BY Zenon DEF History!Init, Grants!History!Init, History!NoCall, Grants!History!NoCall,
         History!NoOrder, Grants!History!NoOrder
<1>2. History!Next => Grants!History!Next
  BY Zenon DEF History!Next, Grants!History!Next, History!Calls, Grants!History!Calls,
         History!Arrive, Grants!History!Arrive, History!Expire, Grants!History!Expire,
         History!Advance, Grants!History!Advance, History!Writes, Grants!History!Writes,
         History!Fail, Grants!History!Fail, History!Goto, Grants!History!Goto,
         History!Enter, Grants!History!Enter, History!Lock, Grants!History!Lock,
         History!AppendEntry, Grants!History!AppendEntry, History!apply,
         Grants!History!apply, History!Current, Grants!History!Current, History!History,
         Grants!History!History, History!Reply, Grants!History!Reply, History!Targets,
         Grants!History!Targets, History!Answer, Grants!History!Answer, History!NoOrder,
         Grants!History!NoOrder, History!CommandFault, Grants!History!CommandFault,
         History!newEntry, Grants!History!newEntry, History!Updated, Grants!History!Updated,
         History!Recorded, Grants!History!Recorded, History!NoCall, Grants!History!NoCall,
         History!TransitionFault, Grants!History!TransitionFault, History!Last,
         Grants!History!Last
<1> QED
  BY <1>1, <1>2

LEMMA SameCatalog ==
    /\ Catalog!Init => Grants!Catalog!Init
    /\ Catalog!Next => Grants!Catalog!Next
<1>1. Catalog!Init => Grants!Catalog!Init
  BY Zenon DEF Catalog!Init, Grants!Catalog!Init, Catalog!NoCall, Grants!Catalog!NoCall,
         Catalog!NoItem, Grants!Catalog!NoItem
<1>2. Catalog!Next => Grants!Catalog!Next
  BY Zenon DEF Catalog!Next, Grants!Catalog!Next, Catalog!Calls, Grants!Catalog!Calls,
         Catalog!Arrive, Grants!Catalog!Arrive, Catalog!Expire, Grants!Catalog!Expire,
         Catalog!CreateIfAbsent, Grants!Catalog!CreateIfAbsent, Catalog!UpdateName,
         Grants!Catalog!UpdateName, Catalog!QueryTenant, Grants!Catalog!QueryTenant,
         Catalog!CallFails, Grants!Catalog!CallFails, Catalog!Reply, Grants!Catalog!Reply,
         Catalog!validateItem, Grants!Catalog!validateItem, Catalog!Goto,
         Grants!Catalog!Goto, Catalog!Answer, Grants!Catalog!Answer, Catalog!ConditionHolds,
         Grants!Catalog!ConditionHolds, Catalog!Store, Grants!Catalog!Store,
         Catalog!decodeItem, Grants!Catalog!decodeItem, Catalog!FirstPage,
         Grants!Catalog!FirstPage, Catalog!NoCall, Grants!Catalog!NoCall, Catalog!Exists,
         Grants!Catalog!Exists, Catalog!encodeItem, Grants!Catalog!encodeItem,
         Catalog!Cardinality, Grants!Catalog!Cardinality
<1> QED
  BY <1>1, <1>2

\* The order of the rows that Find sorts is of no account for the slots.
LEMMA SameAudit ==
    /\ Audit!Init => Grants!Audit!Init
    /\ Audit!Next => Grants!Audit!Next \/ \E r \in {R1, R2} : Audit!Find(r)
<1>1. Audit!Init => Grants!Audit!Init
  BY Zenon DEF Audit!Init, Grants!Audit!Init, Audit!NoCall, Grants!Audit!NoCall,
         Audit!NoWalk, Grants!Audit!NoWalk
<1>2. Audit!Next => Grants!Audit!Next \/ \E r \in {R1, R2} : Audit!Find(r)
  BY ZenonT(60) DEF Audit!Next, Grants!Audit!Next, Audit!Insert, Grants!Audit!Insert,
         Audit!Arrive, Grants!Audit!Arrive, Audit!Advance, Grants!Audit!Advance,
         Audit!NoWalk, Grants!Audit!NoWalk, Audit!LimitConcurrency,
         Grants!Audit!LimitConcurrency, Audit!DecodeJSON, Grants!Audit!DecodeJSON,
         Audit!Fails, Grants!Audit!Fails, Audit!Respond, Grants!Audit!Respond, Audit!Follow,
         Grants!Audit!Follow, Audit!Leave, Grants!Audit!Leave, Audit!Expire,
         Grants!Audit!Expire, Audit!NoCall, Grants!Audit!NoCall, Audit!Goto,
         Grants!Audit!Goto, Audit!DecodeFault, Grants!Audit!DecodeFault, Audit!Answer,
         Grants!Audit!Answer, Audit!ValidQuery, Grants!Audit!ValidQuery, Audit!ContextError,
         Grants!Audit!ContextError, Audit!NextPage, Grants!Audit!NextPage,
         Audit!validateAggregate, Grants!Audit!validateAggregate,
         Audit!parseRequiredPositiveInt64, Grants!Audit!parseRequiredPositiveInt64,
         Audit!parseOptionalPositiveInt64, Grants!Audit!parseOptionalPositiveInt64
<1> QED
  BY <1>1, <1>2

LEMMA AuditFinds ==
    ASSUME Grants!AuditInv, NEW r \in {R1, R2}, Audit!Find(r)
    PROVE  Grants!AuditInv'
<1>1. \/ pc' = [pc EXCEPT ![r] = "reply"] /\ lock' = lock - 1
      \/ pc' = [pc EXCEPT ![r] = "found"] /\ UNCHANGED lock
  BY DEF Audit!Find, Audit!Answer, Audit!Goto
<1>2. r \in Grants!Running
  BY DEF Audit!Find, Grants!Running
<1> QED
  BY <1>1, <1>2, RowConstants, Grants!AuditMoves

LEMMA SameJwt ==
    /\ Jwt!Init => Grants!Jwt!Init
    /\ Jwt!Next => Grants!Jwt!Next
<1>1. Jwt!Init => Grants!Jwt!Init
  BY Zenon DEF Jwt!Init, Grants!Jwt!Init, Jwt!NoWork, Grants!Jwt!NoWork, Jwt!NoToken,
         Grants!Jwt!NoToken, Jwt!NoKey, Grants!Jwt!NoKey
<1>2. Jwt!Next => Grants!Jwt!Next
  BY Zenon DEF Jwt!Next, Grants!Jwt!Next, Jwt!Tick, Grants!Jwt!Tick, Jwt!Restart,
         Grants!Jwt!Restart, Jwt!IssueToken, Grants!Jwt!IssueToken, Jwt!ReadCurrent,
         Grants!Jwt!ReadCurrent, Jwt!VerifyToken, Grants!Jwt!VerifyToken, Jwt!ParseOwn,
         Grants!Jwt!ParseOwn, Jwt!ForcedRotate, Grants!Jwt!ForcedRotate, Jwt!RotateRefused,
         Grants!Jwt!RotateRefused, Jwt!OperationFails, Grants!Jwt!OperationFails, Jwt!Reply,
         Grants!Jwt!Reply, Jwt!validateIssueRequest, Grants!Jwt!validateIssueRequest,
         Jwt!Show, Grants!Jwt!Show, Jwt!Answer, Grants!Jwt!Answer, Jwt!Cardinality,
         Grants!Jwt!Cardinality, Jwt!HasCurrent, Grants!Jwt!HasCurrent, Jwt!CreateKey,
         Grants!Jwt!CreateKey, Jwt!LoseKey, Grants!Jwt!LoseKey, Jwt!KidIsKnown,
         Grants!Jwt!KidIsKnown, Jwt!NoWork, Grants!Jwt!NoWork, Jwt!NoToken,
         Grants!Jwt!NoToken, Jwt!NoKey, Grants!Jwt!NoKey, Jwt!Goto, Grants!Jwt!Goto,
         Jwt!Expiry, Grants!Jwt!Expiry, Jwt!Verdict, Grants!Jwt!Verdict, Jwt!Verdicts,
         Grants!Jwt!Verdicts, Jwt!nextKeyID, Grants!Jwt!nextKeyID, Jwt!Retained,
         Grants!Jwt!Retained, Jwt!Replaced, Grants!Jwt!Replaced, Jwt!KID, Grants!Jwt!KID
<1> QED
  BY <1>1, <1>2

GrantsInv ==
    /\ program = "redis" => Grants!RedisInv
    /\ program = "guard" => Grants!GuardInv
    /\ program = "refresh" => Grants!RefreshInv

LEMMA GrantsBegin == Init => GrantsInv
<1> SUFFICES ASSUME Init
             PROVE  GrantsInv
  OBVIOUS
<1>1. CASE GrantInit
  <2>1. /\ program = "redis" => Redis!Init
        /\ program = "guard" => Guard!Init
        /\ program = "refresh" => Refresh!Init
    BY <1>1 DEF GrantInit
  <2> QED
    BY <2>1, SameRedis, SameGuard, SameRefresh, GrantConstants, Grants!RedisBegins,
       Grants!GuardBegins, Grants!RefreshBegins DEF GrantsInv
<1>2. CASE SqlInit \/ AuditInit
  BY <1>2 DEF SqlInit, AuditInit, GrantsInv
<1> QED
  BY <1>1, <1>2 DEF Init

RowsInv ==
    /\ program = "order" => Grants!OrderInv
    /\ program = "command" => Grants!CommandInv
    /\ program = "history" => Grants!HistoryInv
    /\ program = "catalog" => Grants!CatalogInv
    /\ program = "audit" => Grants!AuditInv
    /\ program = "jwt" => Grants!JwtInv

LEMMA RowsBegin == Init => RowsInv
<1> SUFFICES ASSUME Init
             PROVE  RowsInv
  OBVIOUS
<1>1. /\ program = "order" => Order!Init
      /\ program = "command" => Command!Init
      /\ program = "history" => History!Init
      /\ program = "catalog" => Catalog!Init
      /\ program = "audit" => Audit!Init
      /\ program = "jwt" => Jwt!Init
  BY DEF Init, SqlInit, AuditInit, GrantInit
<1> QED
  BY <1>1, SameOrder, SameCommand, SameHistory, SameCatalog, SameAudit, SameJwt, RowConstants,
     Grants!OrderBegins, Grants!CommandBegins, Grants!HistoryBegins, Grants!CatalogBegins,
     Grants!AuditBegins, Grants!JwtBegins DEF RowsInv

\* A program runs by itself: the others neither step nor touch its variables.
LEMMA StoresRunOne ==
    ASSUME [Next]_(vars)
    PROVE  /\ program' = program
           /\ program = "redis" => [Grants!Redis!Next]_(Grants!Redis!vars)
           /\ program = "guard" => [Grants!Guard!Next]_(Grants!Guard!vars)
           /\ program = "refresh" => [Grants!Refresh!Next]_(Grants!Refresh!vars)
<1>1. CASE UNCHANGED vars
  BY <1>1 DEF vars, sharedVars, sqlVars, crudVars, newVars,
     bloomVars, tokenVars, Grants!Redis!vars, Grants!Redis!requestVars,
     Grants!Guard!vars, Grants!Refresh!vars
<1>2. CASE Next
  <2>1. /\ program' = program
        /\ program = "redis" => Redis!Next
        /\ program = "guard" => Guard!Next
        /\ program = "refresh" => Refresh!Next
    BY <1>2 DEF Next, RunsOrder, RunsCommand, RunsCrud,
       RunsQuery, RunsHistory, RunsCatalog, RunsAudit,
       RunsGraph, RunsRedis, RunsGuard, RunsRefresh, RunsJwt,
       notGranting
  <2> QED
    BY <2>1, SameRedis, SameGuard, SameRefresh
<1> QED
  BY <1>1, <1>2

LEMMA GrantsStep == GrantsInv /\ [Next]_(vars) => GrantsInv'
BY StoresRunOne, GrantConstants, Grants!RedisStep, Grants!GuardStep, Grants!RefreshStep
   DEF GrantsInv

LEMMA GrantsHold == GrantsInv => GrantsAreBounded
<1>1. Grants!RedisInv => Redis!AdmittedOnce
  BY DEF Grants!RedisInv, Grants!AdmissionsAreCovered, Redis!AdmittedOnce
<1>2. Grants!Guard!AtMostOnce /\ Grants!Guard!DuplicateIsJustified =>
         Guard!AtMostOnce /\ Guard!DuplicateIsJustified
  BY Zenon DEF Grants!Guard!AtMostOnce, Grants!Guard!DuplicateIsJustified,
     Guard!AtMostOnce, Guard!DuplicateIsJustified
<1>3. Grants!Refresh!SessionsEnd => Refresh!SessionsEnd
  BY Zenon DEF Grants!Refresh!SessionsEnd, Grants!Refresh!Started, Grants!Refresh!EndsInTime,
     Refresh!SessionsEnd, Refresh!Started, Refresh!EndsInTime
<1> QED
  BY <1>1, <1>2, <1>3, Grants!GuardBounds, Grants!RefreshBounds
     DEF GrantsInv, GrantsAreBounded

LEMMA RowsRunOne ==
    ASSUME [Next]_(vars)
    PROVE  /\ program' = program
           /\ program = "order" => [Grants!Order!Next]_(Grants!Order!vars)
           /\ program = "command" => [Grants!Command!Next]_(Grants!Command!vars)
           /\ program = "history" => [Grants!History!Next]_(Grants!History!vars)
           /\ program = "catalog" => [Grants!Catalog!Next]_(Grants!Catalog!vars)
           /\ program = "audit" => \/ [Grants!Audit!Next]_(Grants!Audit!vars)
                                  \/ \E r \in {R1, R2} : Audit!Find(r)
           /\ program = "jwt" => [Grants!Jwt!Next]_(Grants!Jwt!vars)
<1>1. CASE UNCHANGED vars
  <2>1. /\ UNCHANGED <<program, pc>> /\ UNCHANGED sharedVars /\ UNCHANGED orderVars
        /\ UNCHANGED commandVars /\ UNCHANGED <<wrote, seen, table, log>>
        /\ UNCHANGED historyVars /\ UNCHANGED tokenVars
    BY <1>1 DEF vars, sqlVars, crudVars, newVars
  <2>2. UNCHANGED Grants!Order!vars
    BY <2>1 DEF sharedVars, orderVars, Grants!Order!vars, Grants!Order!requestVars,
       Grants!Order!tableVars
  <2>3. UNCHANGED Grants!Command!vars
    BY <2>1 DEF commandVars, Grants!Command!vars, Grants!Command!procVars
  <2>4. UNCHANGED Grants!History!vars
    BY <2>1 DEF sharedVars, historyVars, Grants!History!vars, Grants!History!requestVars
  <2>5. UNCHANGED Grants!Catalog!vars /\ UNCHANGED Grants!Audit!vars
    BY <2>1 DEF sharedVars, historyVars, Grants!Catalog!vars, Grants!Catalog!requestVars, Grants!Audit!vars
  <2>6. UNCHANGED Grants!Jwt!vars
    BY <2>1 DEF sharedVars, tokenVars, jwtVars, Grants!Jwt!vars
  <2> QED
    BY <2>1, <2>2, <2>3, <2>4, <2>5, <2>6
<1>2. CASE Next
  <2>1. /\ program' = program
        /\ program = "order" => Order!Next
        /\ program = "command" => Command!Next
        /\ program = "history" => History!Next
        /\ program = "catalog" => Catalog!Next
        /\ program = "audit" => Audit!Next
        /\ program = "jwt" => Jwt!Next
    BY <1>2 DEF Next, RunsOrder, RunsCommand, RunsCrud,
       RunsQuery, RunsHistory, RunsCatalog, RunsAudit,
       RunsGraph, RunsRedis, RunsGuard, RunsRefresh, RunsJwt,
       notGranting
  <2> QED
    BY <2>1, SameOrder, SameCommand, SameHistory, SameCatalog, SameAudit, SameJwt
<1> QED
  BY <1>1, <1>2

LEMMA RowsStep == RowsInv /\ [Next]_(vars) => RowsInv'
<1> SUFFICES ASSUME RowsInv, [Next]_(vars)
             PROVE  RowsInv'
  OBVIOUS
<1>1. program = "order" => Grants!OrderInv'
  BY RowsRunOne, RowConstants, Grants!OrderStep DEF RowsInv
<1>2. program = "command" => Grants!CommandInv'
  BY RowsRunOne, RowConstants, Grants!CommandStep DEF RowsInv
<1>3. program = "history" => Grants!HistoryInv'
  BY RowsRunOne, RowConstants, Grants!HistoryStep DEF RowsInv
<1>4. program = "catalog" => Grants!CatalogInv'
  BY RowsRunOne, RowConstants, Grants!CatalogStep DEF RowsInv
<1>5. program = "audit" => Grants!AuditInv'
  BY RowsRunOne, RowConstants, Grants!AuditStep, AuditFinds DEF RowsInv
<1>6. program = "jwt" => Grants!JwtInv'
  BY RowsRunOne, RowConstants, Grants!JwtStep DEF RowsInv
<1> QED
  BY <1>1, <1>2, <1>3, <1>4, <1>5, <1>6, RowsRunOne DEF RowsInv

LEMMA RowsHold == RowsInv /\ GrantsInv => RowsAgree
<1>1. Grants!OrderInv => Order!AggregateIsWhole
  BY Zenon DEF Grants!OrderInv, Grants!Order!AggregateIsWhole, Order!AggregateIsWhole,
     Grants!Order!NoTotal, Order!NoTotal, Grants!Order!NoItems, Order!NoItems
<1>2. Grants!CommandInv => Command!OrdersHaveRecords
  BY Zenon DEF Grants!CommandInv, Grants!Command!OrdersHaveRecords, Command!OrdersHaveRecords,
     Grants!Command!InStream, Command!InStream
<1>3. Grants!HistoryInv => History!HistoryLeads /\ History!CommandsAreUnique
  <2>1. Grants!HistoryInv => Grants!History!HistoryLeads /\ Grants!History!CommandsAreUnique
    BY Grants!HistoryShows
  <2>2. Grants!History!HistoryLeads => History!HistoryLeads
    BY Zenon DEF Grants!History!HistoryLeads, History!HistoryLeads, Grants!History!InFlight,
       History!InFlight, Grants!History!Recorded, History!Recorded, Grants!History!Last,
       History!Last, Grants!History!NoOrder, History!NoOrder
  <2>3. Grants!History!CommandsAreUnique => History!CommandsAreUnique
    BY Zenon DEF Grants!History!CommandsAreUnique, History!CommandsAreUnique
  <2> QED
    BY <2>1, <2>2, <2>3
<1>4. Grants!CatalogInv => Catalog!NoLostRename
  <2>1. Grants!CatalogInv => Grants!Catalog!NoLostRename
    BY Grants!CatalogHolds
  <2> QED
    BY <2>1, Zenon DEF Grants!Catalog!NoLostRename, Catalog!NoLostRename
<1>5. Grants!AuditInv => Audit!SlotsAreReturned
  <2>1. \A S : Audit!Cardinality(S) = Grants!Cardinality(S)
    BY Zenon DEF Audit!Cardinality, Grants!Cardinality
  <2> QED
    BY <2>1 DEF Grants!AuditInv, Grants!Running, Audit!SlotsAreReturned
<1>6. Grants!RedisInv => Redis!ServingAgree
  BY Zenon DEF Grants!RedisInv, Grants!ServingMatch, Redis!ServingAgree, Grants!Redis!bloomConfig,
     Redis!bloomConfig
<1>7. Grants!JwtInv => Jwt!RotationsAreTrue
  <2>1. Grants!JwtInv => Grants!Jwt!RotationsAreTrue
    BY Grants!JwtShows
  <2> QED
    BY <2>1, Zenon DEF Grants!Jwt!RotationsAreTrue, Jwt!RotationsAreTrue, Grants!Jwt!KID,
       Jwt!KID, Grants!Jwt!SameProcess, Jwt!SameProcess, Grants!Jwt!NoKey, Jwt!NoKey
<1> QED
  BY <1>1, <1>2, <1>3, <1>4, <1>5, <1>6, <1>7 DEF RowsInv, GrantsInv, RowsAgree

\* admit, Put and RefreshAccess in the composed programs: a checkout key or an event is
\* admitted at most once, and no sequence of refreshes outlives its session.
THEOREM StoresGrantWithinBounds == Spec => []GrantsAreBounded
<1>1. Init => GrantsInv
  BY GrantsBegin
<1>2. GrantsInv /\ [Next]_(vars) => GrantsInv'
  BY GrantsStep
<1> QED
  BY <1>1, <1>2, GrantsHold, PTL DEF Spec

\* CreateOrder, Place, apply, UpdateName, limitConcurrency, NewService and ForcedRotate in
\* the composed programs: what a program keeps in several places fits together at every
\* moment.
THEOREM StoresRowsAgree == Spec => []RowsAgree
<1>1. Init => RowsInv /\ GrantsInv
  BY RowsBegin, GrantsBegin
<1>2. RowsInv /\ GrantsInv /\ [Next]_(vars) => RowsInv' /\ GrantsInv'
  BY RowsStep, GrantsStep
<1> QED
  BY <1>1, <1>2, RowsHold, PTL DEF Spec

\* PATCH /orders/{id}/items/{item_id} edits one and the same item.
OneItemEdited == \A l, m \in EditedLines : l = m

TotalsInv == program = "order" => Grants!TotalInv

LEMMA TotalsHold == Grants!TotalInv => Order!TotalMatchesItems
<1>1. Grants!TotalInv => Grants!Order!TotalMatchesItems
  BY DEF Grants!TotalInv
<1> QED
  BY <1>1, Zenon DEF Grants!Order!TotalMatchesItems, Order!TotalMatchesItems, Grants!Order!NoTotal,
     Order!NoTotal, Grants!Order!Cents, Order!Cents, Grants!Order!MapThenSumSet, Order!MapThenSumSet,
     Grants!Order!MapThenFoldSet, Order!MapThenFoldSet

\* CreateOrder and UpdateItemQuantity in the composed programs: the stored total of an order
\* is the sum of its stored lines as long as all edits are of the same item.
THEOREM StoresTotalsMatch == OneItemEdited /\ Spec => []TotalMatchesItems
<1> SUFFICES ASSUME OneItemEdited
             PROVE  Spec => []TotalMatchesItems
  OBVIOUS
<1>1. Grants!OneEdited
  BY DEF OneItemEdited, Grants!OneEdited
<1>2. Init => TotalsInv
  <2>1. Init /\ program = "order" => Order!Init
    BY DEF Init, SqlInit, AuditInit, GrantInit
  <2> QED
    BY <2>1, SameOrder, Grants!TotalBegins DEF TotalsInv
<1>3. TotalsInv /\ [Next]_(vars) => TotalsInv'
  BY <1>1, RowsRunOne, RowConstants, Grants!TotalStep DEF TotalsInv
<1>4. TotalsInv => TotalMatchesItems
  BY TotalsHold DEF TotalsInv, TotalMatchesItems
<1> QED
  BY <1>2, <1>3, <1>4, PTL DEF Spec

================================================================================
