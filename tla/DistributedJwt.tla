----------------------------- MODULE DistributedJwt -----------------------------
(***************************************************************************)
(* examples/distributed-jwt-key-rotation: several nodes sign and verify    *)
(* tokens with keys that they share in Redis.  The key repository and the  *)
(* reader cache are a library's: it keeps the latest Capacity keys under   *)
(* their kids, and a verification, cached or not, asks Redis for the kid   *)
(* of the token.  What the library does with the kid of a key it already   *)
(* keeps cannot be seen from here: it may refuse the new key, or replace   *)
(* the old one.  A node counts its kids in memory, so a restart repeats    *)
(* them, and so does a second process with the same NODE_ID.               *)
(***************************************************************************)
EXTENDS Naturals, Sequences, FiniteSets

CONSTANTS
    Requests,   \* concurrent requests, each on some node
    Nodes,      \* the processes
    NodeID,     \* process -> NODE_ID, api-1 unless the environment sets it
    TTLs,       \* ttl_seconds of token requests
    MaxTTL,     \* maxTokenTTL
    Capacity,   \* keys the repository retains
    KeyTTL,     \* lifetime of a key
    MaxKeys,    \* bound on keys ever created, and on the kids of a process
    MaxRestarts, \* process -> bound on its restarts
    MaxTokens,  \* bound on tokens handed out
    MaxTime     \* bound on the clock

VARIABLES
    pc,       \* request -> where it stands
    work,     \* request -> what it has so far: its node, a token, a rotation's keys
    outcome,  \* request -> the answer
    keys,     \* every key ever current, oldest first: who made it, its number, its end
    next,     \* node -> nextKID
    boots,    \* node -> how often it has been restarted
    tokens,   \* the tokens clients have been given: [key, exp]
    now       \* the clock

vars == <<pc, work, outcome, keys, next, boots, tokens, now>>

JwtAssumption ==
    /\ Nodes # {}
    /\ Capacity \in Nat \ {0} /\ KeyTTL \in Nat \ {0}
    /\ MaxTTL \in Nat /\ MaxKeys \in Nat /\ MaxRestarts \in [Nodes -> Nat] /\ MaxTime \in Nat
    /\ TTLs \subseteq Nat

\* A key is its position in keys, 0 when there is none.
NoKey == 0
NoToken == [key |-> NoKey, exp |-> 0]
NoWork == [node |-> "none", token |-> NoToken, previous |-> NoKey, key |-> NoKey]
Codes == {"none", "issued", "verified", "rotated", "invalid_request", "invalid_token",
          "expired_token", "repository_timeout", "internal_error"}

TypeOK ==
    /\ pc \in [Requests -> {"idle", "parse", "rotate", "reply"}]
    /\ \A r \in Requests : outcome[r] \in Codes
    /\ \A t \in tokens : t.key \in DOMAIN keys
    /\ Len(keys) <= MaxKeys + 1 /\ now \in 0 .. MaxTime

\* NewService on the first node creates the first key; the others find it.
Init ==
    /\ pc = [r \in Requests |-> "idle"]
    /\ work = [r \in Requests |-> NoWork]
    /\ outcome = [r \in Requests |-> "none"]
    /\ LET n == CHOOSE m \in Nodes : TRUE IN
       /\ keys = <<[node |-> n, boot |-> 0, no |-> 1, exp |-> KeyTTL]>>
       /\ next = [m \in Nodes |-> IF m = n THEN 2 ELSE 1]
    /\ boots = [m \in Nodes |-> 0]
    /\ tokens = {}
    /\ now = 0

Goto(r, label) == pc' = [pc EXCEPT ![r] = label]

\* The answer, and what of its work the request has to show for it.
Show(r, code, shown) ==
    /\ outcome' = [outcome EXCEPT ![r] = code]
    /\ work' = [work EXCEPT ![r] = shown]
    /\ Goto(r, "reply")
Answer(r, code) == Show(r, code, NoWork)

\* nextKeyID: the kid of a key, and whether two keys come from one process.
KID(i) == <<NodeID[keys[i].node], keys[i].no>>
SameProcess(i, j) == keys[i].node = keys[j].node /\ keys[i].boot = keys[j].boot

\* A later key has taken the kid of key i.
Replaced(i) == \E j \in DOMAIN keys : j > i /\ KID(j) = KID(i)

\* The keys in Redis.
Retained == {i \in DOMAIN keys : i > Len(keys) - Capacity /\ now < keys[i].exp /\ ~Replaced(i)}
HasCurrent == Len(keys) \in Retained

\* nextKeyID: the process counts the number of its key.
nextKeyID(n, no) == next' = [next EXCEPT ![n] = no + 1]

\* A new current key: forced, or because the current one has expired.
CreateKey(n, boot, no) ==
    /\ Len(keys) <= MaxKeys
    /\ keys' = Append(keys, [node |-> n, boot |-> boot, no |-> no, exp |-> now + KeyTTL])
    /\ nextKeyID(n, no)

\* The key gets a number and is not stored: the call failed before, or its kid is known.
LoseKey(n) ==
    /\ next[n] < MaxKeys
    /\ nextKeyID(n, next[n])
    /\ UNCHANGED keys

KidIsKnown(n) == \E i \in Retained : KID(i) = <<NodeID[n], next[n]>>

Tick ==
    /\ now < MaxTime
    /\ now' = now + 1
    /\ UNCHANGED <<pc, work, outcome, keys, next, boots, tokens>>

--------------------------------------------------------------------------------
validateIssueRequest(ttl) == ttl > 0 /\ ttl <= MaxTTL

\* IssueToken signs with the current key ...
IssueToken(r, n, ttl) ==
    /\ pc[r] = "idle"
    /\ IF ~validateIssueRequest(ttl)
       THEN Answer(r, "invalid_request") /\ UNCHANGED <<keys, next>>
       ELSE /\ Cardinality(tokens) < MaxTokens
            /\ IF HasCurrent THEN UNCHANGED <<keys, next>> ELSE CreateKey(n, boots[n], next[n])
            /\ work' = [work EXCEPT ![r] =
                  [NoWork EXCEPT !.node = n, !.token = [key |-> Len(keys'), exp |-> now + ttl]]]
            /\ Goto(r, "parse")
            /\ UNCHANGED outcome
    /\ UNCHANGED <<boots, tokens, now>>

\* ParseContext on a token whose kid is in Redis.
Expiry(t) == IF now >= t.exp THEN "expired_token" ELSE "valid"

\* ParseContext without a cached reader: the signature needs the token's own key.
Verdict(t) == IF t.key \in Retained THEN Expiry(t) ELSE "invalid_token"

\* ParseContext on some node: a cached reader is trusted as long as the kid is in Redis,
\* be it under a later key.
Verdicts(t) ==
    {Verdict(t)} \union (IF \E i \in Retained : KID(i) = KID(t.key) THEN {Expiry(t)} ELSE {})

\* ... and parses its own token, which no cache has yet, before it hands it out.
ParseOwn(r) ==
    /\ pc[r] = "parse"
    /\ IF Verdict(work[r].token) = "valid"
       THEN tokens' = tokens \union {work[r].token} /\ Answer(r, "issued")
       ELSE Answer(r, Verdict(work[r].token)) /\ UNCHANGED tokens
    /\ UNCHANGED <<keys, next, boots, now>>

VerifyToken(r, t) ==
    /\ pc[r] = "idle"
    /\ \E v \in Verdicts(t) :
          Show(r, IF v = "valid" THEN "verified" ELSE v, [NoWork EXCEPT !.token = t])
    /\ UNCHANGED <<keys, next, boots, tokens, now>>

\* RotateKey reads the current key, whose error it ignores, ...
ReadCurrent(r, n) ==
    /\ pc[r] = "idle"
    /\ \E previous \in {NoKey} \union (IF HasCurrent THEN {Len(keys)} ELSE {}) :
          work' = [work EXCEPT ![r] = [NoWork EXCEPT !.node = n, !.previous = previous]]
    /\ Goto(r, "rotate")
    /\ UNCHANGED <<outcome, keys, next, boots, tokens, now>>

\* ... and rotates in a second call.  A previous key with the same kid is not named.
ForcedRotate(r) ==
    /\ pc[r] = "rotate"
    /\ LET n == work[r].node
           shown == IF work[r].previous # NoKey /\ KID(work[r].previous) = <<NodeID[n], next[n]>>
                    THEN NoKey ELSE work[r].previous IN
       /\ CreateKey(n, boots[n], next[n])
       /\ Show(r, "rotated", [NoWork EXCEPT !.node = n, !.key = Len(keys'), !.previous = shown])
    /\ UNCHANGED <<boots, tokens, now>>

\* The library refuses a key whose kid it already keeps.
RotateRefused(r) ==
    /\ pc[r] = "rotate"
    /\ KidIsKnown(work[r].node)
    /\ LoseKey(work[r].node)
    /\ Answer(r, "internal_error")
    /\ UNCHANGED <<boots, tokens, now>>

\* operationTimeout passes, or the client leaves: the call fails, and a rotation may
\* have counted its kid and may have taken effect.
OperationFails(r) ==
    /\ pc[r] \in {"parse", "rotate"}
    /\ LET n == work[r].node IN
       \/ UNCHANGED <<keys, next>>
       \/ pc[r] = "rotate" /\ (CreateKey(n, boots[n], next[n]) \/ LoseKey(n))
    /\ Answer(r, "repository_timeout")
    /\ UNCHANGED <<boots, tokens, now>>

Reply(r) ==
    /\ pc[r] = "reply"
    /\ Goto(r, "idle")
    /\ outcome' = [outcome EXCEPT ![r] = "none"]
    /\ work' = [work EXCEPT ![r] = NoWork]
    /\ UNCHANGED <<keys, next, boots, tokens, now>>

\* A process is restarted: its requests are gone and NewService counts from the start,
\* with a first key of its own when Redis has no current one.
Restart(n) ==
    /\ boots[n] < MaxRestarts[n]
    /\ boots' = [boots EXCEPT ![n] = @ + 1]
    /\ LET lost == {r \in Requests : pc[r] \in {"parse", "rotate"} /\ work[r].node = n} IN
       /\ pc' = [r \in Requests |-> IF r \in lost THEN "idle" ELSE pc[r]]
       /\ work' = [r \in Requests |-> IF r \in lost THEN NoWork ELSE work[r]]
    /\ IF HasCurrent
       THEN next' = [next EXCEPT ![n] = 1] /\ UNCHANGED keys
       ELSE CreateKey(n, boots'[n], 1)
    /\ UNCHANGED <<outcome, tokens, now>>

Next ==
    \/ Tick
    \/ \E n \in Nodes : Restart(n)
    \/ \E r \in Requests, n \in Nodes, ttl \in TTLs : IssueToken(r, n, ttl)
    \/ \E r \in Requests, n \in Nodes : ReadCurrent(r, n)
    \/ \E r \in Requests, t \in tokens : VerifyToken(r, t)
    \/ \E r \in Requests :
          ParseOwn(r) \/ ForcedRotate(r) \/ RotateRefused(r) \/ OperationFails(r) \/ Reply(r)

Spec == Init /\ [][Next]_vars

--------------------------------------------------------------------------------
\* RotateKey and IssueToken: a process that has not been restarted never gives a kid
\* twice, so two keys with one kid come from two processes (with one NODE_ID, or before
\* and after a restart); a rotation answers with a key of its own node and names as
\* previous an earlier key with another kid.
RotationsAreTrue ==
    /\ \A i, j \in DOMAIN keys : i # j /\ KID(i) = KID(j) => ~SameProcess(i, j)
    /\ \A r \in Requests : outcome[r] = "rotated" =>
          /\ work[r].key \in DOMAIN keys
          /\ keys[work[r].key].node = work[r].node
          /\ work[r].previous # NoKey =>
                work[r].previous < work[r].key /\ KID(work[r].previous) # KID(work[r].key)

\* VerifyToken: a token that was handed out is refused as invalid only after Capacity
\* later keys, at the end of its key's lifetime, or when another process has made a
\* later key with its kid.  The example's README.md:47 promises more, the old key
\* "until its TTL window ends": Capacity: 3 (service.go:184) cuts that short.
RetainedTokensVerify ==
    \A r \in Requests :
        outcome[r] = "invalid_token" /\ work[r].token \in tokens =>
            LET i == work[r].token.key IN
            \/ Len(keys) - i >= Capacity
            \/ now >= keys[i].exp
            \/ \E j \in DOMAIN keys : j > i /\ KID(j) = KID(i) /\ ~SameProcess(i, j)

================================================================================
