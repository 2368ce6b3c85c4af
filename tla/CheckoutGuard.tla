----------------------------- MODULE CheckoutGuard -----------------------------
(***************************************************************************)
(* The checkout guard of examples/checkout-guard-integration.  A checkout  *)
(* is verified against a bearer token, normalised, priced by the discount  *)
(* and tax rules, admitted once per idempotency key by a Bloom filter      *)
(* behind a mutex and answered with two generated ids.  Requests run       *)
(* concurrently; tokens expire while they run.                             *)
(***************************************************************************)
EXTENDS Integers, Sequences, FiniteSets, SequencesExt

CONSTANTS
    Requests,       \* concurrent requests
    Keys,           \* idempotency keys
    Bits,           \* key -> the bits of the Bloom filter it hashes to
    TokenRequests,  \* bodies of POST /tokens: [role, scopes, ttl]
    Checkouts,      \* bodies of POST /checkout/guard: [key, currency, tier, region, lines]
    MaxTokens,      \* bound on issued tokens
    MaxTime         \* bound on the clock

VARIABLES
    pc,        \* request -> "idle", "admit", "requestID", "orderID" or "reply"
    call,      \* request -> its checkout
    outcome,   \* request -> the answer
    tokens,    \* issued tokens in order: [role, scopes, exp]
    now,       \* the service's clock
    filter,    \* the bits that are set
    admitted,  \* keys that admit has put into the filter
    created    \* key -> how many requests were answered 201 for it

vars == <<pc, call, outcome, tokens, now, filter, admitted, created>>

Minor == 100       \* amounts are counted in hundredths of the currency's minor unit
NoPrice == -1      \* an amount that money.New refuses
NoKey == "none"    \* an idempotency key that is blank once it is trimmed
NoCheckout == [key |-> NoKey, currency |-> "none", tier |-> "none", region |-> "none", lines |-> <<>>]
Quote(code, total) == [code |-> code, total |-> total]

GuardAssumption ==
    /\ NoKey \notin Keys
    /\ \A k \in Keys : Bits[k] # {} /\ IsFiniteSet(Bits[k])
    /\ \A c \in Checkouts : c.key \in Keys \union {NoKey} /\ DOMAIN c.lines = 1 .. Len(c.lines)
    /\ \A t \in TokenRequests : t.ttl \in Int
    /\ MaxTokens \in Nat /\ MaxTime \in Nat

Codes == {"none", "created", "missing_token", "invalid_token", "expired_token", "invalid_claims",
          "invalid_request", "invalid_money", "rule_denied", "duplicate_submission",
          "checkout_error"}

TypeOK ==
    /\ pc \in [Requests -> {"idle", "admit", "requestID", "orderID", "reply"}]
    /\ \A r \in Requests : call[r] \in Checkouts \union {NoCheckout}
    /\ \A r \in Requests : outcome[r].code \in Codes /\ outcome[r].total \in Int
    /\ filter \subseteq UNION {Bits[k] : k \in Keys}
    /\ admitted \subseteq Keys
    /\ created \in [Keys -> Nat]
    /\ now \in 0 .. MaxTime

Init ==
    /\ pc = [r \in Requests |-> "idle"]
    /\ call = [r \in Requests |-> NoCheckout]
    /\ outcome = [r \in Requests |-> Quote("none", 0)]
    /\ tokens = <<>>
    /\ now = 0
    /\ filter = {}
    /\ admitted = {}
    /\ created = [k \in Keys |-> 0]

Goto(r, label) == pc' = [pc EXCEPT ![r] = label]
Answer(r, code, total) == outcome' = [outcome EXCEPT ![r] = Quote(code, total)] /\ Goto(r, "reply")

--------------------------------------------------------------------------------
(* What a checkout is refused for, and its price.                            *)

\* normalizeCheckoutRequest: the fault of a line, and the first one of a request.
LineFault(line, currency) ==
    IF line.quantity <= 0 THEN "invalid_request"
    ELSE IF line.currency # currency THEN "invalid_money"
    ELSE "none"

FirstFault(faults) ==
    LET real == {i \in DOMAIN faults : faults[i] # "none"} IN
    IF real = {} THEN "none" ELSE faults[Min(real)]

normalizeCheckoutRequest(c) ==
    IF c.key = NoKey \/ c.lines = <<>> THEN "invalid_request"
    ELSE FirstFault([i \in DOMAIN c.lines |-> LineFault(c.lines[i], c.currency)])

PriceFault(line) ==
    IF line.category = "restricted" THEN "rule_denied"
    ELSE IF line.price = NoPrice THEN "invalid_money"
    ELSE "none"

\* money.Round: the nearest whole minor unit.  The rules take 5 and 20 percent of rounded
\* amounts, which are exact here.
Round(amount) == Minor * ((amount + Minor \div 2) \div Minor)

applyDiscountRule(amount, line, tier) ==
    IF tier = "vip" /\ line.category = "service" THEN Round(amount \div 20) ELSE 0

applyTaxRule(base, line, region) ==
    IF region = "EU" /\ line.category # "tax_exempt" THEN Round(base \div 5) ELSE 0

\* The sums of priceCheckout after each line.
priceCheckout(c) ==
    LET add(sum, line) ==
            LET amount == Round(line.price * line.quantity)
                discount == applyDiscountRule(amount, line, c.tier)
            IN [subtotal |-> sum.subtotal + amount,
                discount |-> sum.discount + discount,
                tax |-> sum.tax + applyTaxRule(amount - discount, line, c.region)]
        sums == FoldLeft(add, [subtotal |-> 0, discount |-> 0, tax |-> 0], c.lines)
    IN Round(sums.subtotal - sums.discount + sums.tax)

\* What GuardCheckout decides before it touches the filter.
Refusal(c) ==
    FirstFault(<<normalizeCheckoutRequest(c),
                 IF normalizeCheckoutRequest(c) # "none" THEN "none"
                 ELSE FirstFault([i \in DOMAIN c.lines |-> PriceFault(c.lines[i])])>>)

--------------------------------------------------------------------------------
validateTokenRequest(t) == t.role # "none" /\ t.scopes # {} /\ t.ttl > 0

\* IssueToken; an invalid request or a failing id generator issues nothing.
IssueToken(t) ==
    /\ Len(tokens) < MaxTokens
    /\ validateTokenRequest(t)
    /\ tokens' = Append(tokens, [role |-> t.role, scopes |-> t.scopes, exp |-> now + t.ttl])
    /\ UNCHANGED <<pc, call, outcome, now, filter, admitted, created>>

Tick ==
    /\ now < MaxTime
    /\ now' = now + 1
    /\ UNCHANGED <<pc, call, outcome, tokens, filter, admitted, created>>

\* The claim contract of an access token.
MeetsContract(t) == t.role = "customer" /\ "checkout:submit" \in t.scopes

\* verifyAuthorization with the bearer of the nth issued token, and the local checks
\* behind it.
GuardCheckout(r, c, n) ==
    /\ pc[r] = "idle"
    /\ call' = [call EXCEPT ![r] = c]
    /\ LET t == tokens[n] IN
       CASE now >= t.exp -> Answer(r, "expired_token", 0)
         [] now < t.exp /\ ~MeetsContract(t) -> Answer(r, "invalid_claims", 0)
         [] now < t.exp /\ MeetsContract(t) /\ Refusal(c) # "none" -> Answer(r, Refusal(c), 0)
         [] OTHER -> Goto(r, "admit") /\ UNCHANGED outcome
    /\ UNCHANGED <<tokens, now, filter, admitted, created>>

\* A request whose header holds no bearer token, or one this service has not signed.
Unauthorized(r, c, code) ==
    /\ pc[r] = "idle"
    /\ call' = [call EXCEPT ![r] = c]
    /\ Answer(r, code, 0)
    /\ UNCHANGED <<tokens, now, filter, admitted, created>>

MightContain(key) == Bits[key] \subseteq filter

\* admit, under the mutex: look the key up and put it in one step.
admit(r) ==
    /\ pc[r] = "admit"
    /\ IF MightContain(call[r].key)
       THEN Answer(r, "duplicate_submission", 0) /\ UNCHANGED <<filter, admitted>>
       ELSE /\ filter' = filter \union Bits[call[r].key]
            /\ admitted' = admitted \union {call[r].key}
            /\ Goto(r, "requestID")
            /\ UNCHANGED outcome
    /\ UNCHANGED <<call, tokens, now, created>>

\* nextID, for the request and then for the order.  A failure leaves the key admitted.
nextID(r) ==
    \/ /\ pc[r] = "requestID"
       /\ Goto(r, "orderID")
       /\ UNCHANGED <<call, outcome, tokens, now, filter, admitted, created>>
    \/ /\ pc[r] = "orderID"
       /\ created' = [created EXCEPT ![call[r].key] = @ + 1]
       /\ Answer(r, "created", priceCheckout(call[r]))
       /\ UNCHANGED <<call, tokens, now, filter, admitted>>
    \/ /\ pc[r] \in {"requestID", "orderID"}
       /\ Answer(r, "checkout_error", 0)
       /\ UNCHANGED <<call, tokens, now, filter, admitted, created>>

Reply(r) ==
    /\ pc[r] = "reply"
    /\ Goto(r, "idle")
    /\ call' = [call EXCEPT ![r] = NoCheckout]
    /\ outcome' = [outcome EXCEPT ![r] = Quote("none", 0)]
    /\ UNCHANGED <<tokens, now, filter, admitted, created>>

Next ==
    \/ \E t \in TokenRequests : IssueToken(t)
    \/ Tick
    \/ \E r \in Requests, c \in Checkouts, n \in DOMAIN tokens : GuardCheckout(r, c, n)
    \/ \E r \in Requests, c \in Checkouts, code \in {"missing_token", "invalid_token"} :
          Unauthorized(r, c, code)
    \/ \E r \in Requests : admit(r) \/ nextID(r) \/ Reply(r)

Spec == Init /\ [][Next]_vars

--------------------------------------------------------------------------------
\* GuardCheckout: however requests with the same key overlap and whatever collides in
\* the filter, a key is answered 201 at most once, and only after it was admitted.
AtMostOnce == \A k \in Keys : created[k] <= 1 /\ (created[k] = 1 => k \in admitted)

\* admit and the order of GuardCheckout: the filter holds the bits of admitted keys and
\* no other, so a refused checkout costs its key nothing and every answer of "duplicate"
\* is owed to checkouts that were admitted before.
DuplicateIsJustified ==
    /\ filter = UNION {Bits[k] : k \in admitted}
    /\ \A r \in Requests : outcome[r].code = "duplicate_submission" =>
          Bits[call[r].key] \subseteq UNION {Bits[k] : k \in admitted}

\* 10000 times the exact total of a checkout.
ExactTotal(c) ==
    FoldLeft(LAMBDA sum, l :
                sum + l.price * l.quantity
                      * (IF c.tier = "vip" /\ l.category = "service" THEN 95 ELSE 100)
                      * (IF c.region = "EU" /\ l.category # "tax_exempt" THEN 120 ELSE 100),
             0, c.lines)

\* priceCheckout: rounding line by line keeps the total a whole number of minor units
\* within two of them per line of the exact one.
TotalIsNear ==
    \A r \in Requests : outcome[r].code = "created" =>
        /\ outcome[r].total % Minor = 0
        /\ LET off == 10000 * outcome[r].total - ExactTotal(call[r]) IN
           /\ off <= 10000 * 2 * Minor * Len(call[r].lines)
           /\ -off <= 10000 * 2 * Minor * Len(call[r].lines)

================================================================================
