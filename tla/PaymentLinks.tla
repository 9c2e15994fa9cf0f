----------------------------- MODULE PaymentLinks -----------------------------
(***************************************************************************)
(* One payment link (app/routes/payment_links.py) and the payment tokens   *)
(* of the sessions it opens (app/services/payment_tokenization.py).        *)
(*                                                                         *)
(* Opening a link awaits the price of its token between reading the link   *)
(* and inserting the session, so requests overlap even within a process.   *)
(* The handlers that change a link await nothing and write constants: they *)
(* are one step.  Tokens live in Redis, or in the memory of the process    *)
(* that could not reach it.                                                *)
(***************************************************************************)
EXTENDS Integers, Sequences, FiniteSets

CONSTANTS
    Openers,      \* requests that open the link
    Processes,    \* server processes
    HomeOf,       \* the process of each opener
    Prices,       \* amounts of money
    MaxOpened,    \* bound on sessions
    TokenTTL,     \* _TOKEN_TTL_SECONDS
    MaxTick       \* bound on time

ASSUME LinkAssumption ==
    /\ HomeOf \in [Openers -> Processes]
    /\ Prices \subseteq Nat /\ {MaxOpened, TokenTTL, MaxTick} \subseteq Nat

VARIABLES
    link,     \* payment_links: the row
    opened,   \* payment_link_sessions with their sessions, oldest first
    opener,   \* what each request holds over its await
    redis,    \* the Redis server, and what each process believes of it
    vault,    \* the tokens: where each is kept and until when
    tick,     \* time
    oldest    \* history: the greatest age at which a token was resolved

linkVars == <<link, opened, opener, redis, vault, tick, oldest>>
-----------------------------------------------------------------------------
NoPrice == -1
NoAmount == -2
Never == -1

\* A fixed link has a price (or NULL), any other asks the customer.
LinkRow == [active: BOOLEAN, fixed: BOOLEAN, price: Prices \cup {NoPrice},
            min: Prices \cup {NoPrice}, max: Prices \cup {NoPrice},
            expires: (0..MaxTick) \cup {Never}, views: Nat]
Opened == [amount: Prices]
Opening == [amount: Prices \cup {NoAmount}, views: Nat]
NotOpening == [amount |-> NoAmount, views |-> 0]

Places == Processes \cup {"redis", "gone"}
Token == [at: Places, until: Nat]

\* Rows, held values and tokens keep their types.
LinkTypeOK ==
    /\ link \in LinkRow
    /\ opened \in Seq(Opened) /\ Len(opened) <= MaxOpened
    /\ opener \in [Openers -> Opening]
    /\ redis.up \in BOOLEAN
    /\ redis.client \in [Processes -> {"untried", "on", "off"}]
    /\ vault \in Seq(Token) /\ Len(vault) = Len(opened)
    /\ tick \in 0..MaxTick /\ oldest \in 0..MaxTick

\* create_payment_link; columns that its kind of link does not use are NULL.
NewLink ==
    LET Made(fixed, price, min, max) ==
          [active |-> TRUE, fixed |-> fixed, price |-> price, min |-> min,
           max |-> max, expires |-> Never, views |-> 0]
        Bound == Prices \cup {NoPrice}
    IN {Made(TRUE, p, NoPrice, NoPrice) : p \in Bound}
       \cup {Made(FALSE, NoPrice, b[1], b[2]) :
               b \in {b \in Bound \X Bound : NoPrice \in {b[1], b[2]} \/ b[1] <= b[2]}}

LinkInit ==
    /\ link \in NewLink
    /\ opened = <<>>
    /\ opener = [o \in Openers |-> NotOpening]
    /\ redis = [up |-> TRUE, client |-> [p \in Processes |-> "untried"]]
    /\ vault = <<>>
    /\ tick = 0
    /\ oldest = 0
-----------------------------------------------------------------------------
(***************************************************************************)
(* The merchant.                                                           *)
(***************************************************************************)
UpdateLink ==
    /\ \/ \E a \in BOOLEAN : link' = [link EXCEPT !.active = a]
       \/ \E p \in Prices \cup {NoPrice} : link' = [link EXCEPT !.price = p]
       \/ \E t \in {tick, Never} : link' = [link EXCEPT !.expires = t]
    /\ UNCHANGED <<opened, opener, redis, vault, tick, oldest>>

DeleteLink ==
    /\ link' = [link EXCEPT !.active = FALSE]
    /\ UNCHANGED <<opened, opener, redis, vault, tick, oldest>>
-----------------------------------------------------------------------------
(***************************************************************************)
(* The payment tokens.                                                     *)
(***************************************************************************)

\* _get_redis: the first contact decides, a failed one for good.
ClientOf(p) ==
    IF redis.client[p] # "untried" THEN redis.client[p]
    ELSE IF redis.up THEN "on" ELSE "off"

Reached(p) == ClientOf(p) = "on" /\ redis.up
Contact(p) == redis' = [redis EXCEPT !.client[p] = ClientOf(p)]

\* create_payment_token
NewToken(p) ==
    [at |-> IF Reached(p) THEN "redis" ELSE p, until |-> tick + TokenTTL]

\* Mutant: entries of a process are only pruned when it creates a token.
FoundUnpruned(p, n) ==
    vault[n].at \in {p} \cup (IF Reached(p) /\ tick <= vault[n].until THEN {"redis"} ELSE {})

\* resolve_payment_token: Redis first, then the process's own, after _prune.
Found(p, n) ==
    /\ vault[n].at \in {p} \cup (IF Reached(p) THEN {"redis"} ELSE {})
    /\ tick <= vault[n].until

ResolveToken(p, n) ==
    /\ Found(p, n)
    /\ oldest' = LET age == tick - (vault[n].until - TokenTTL) IN
                 IF age > oldest THEN age ELSE oldest
    /\ Contact(p)
    /\ UNCHANGED <<link, opened, opener, vault, tick>>

\* Redis goes, comes back, and may have lost what it held.
RedisChange ==
    /\ redis' = [redis EXCEPT !.up = ~@]
    /\ \/ UNCHANGED vault
       \/ vault' = [n \in DOMAIN vault |->
            IF vault[n].at = "redis" THEN [vault[n] EXCEPT !.at = "gone"] ELSE vault[n]]
    /\ UNCHANGED <<link, opened, opener, tick, oldest>>

\* A process that restarts has no tokens and has not tried Redis; its requests
\* are dropped.
RestartProcess(p) ==
    /\ redis' = [redis EXCEPT !.client[p] = "untried"]
    /\ vault' = [n \in DOMAIN vault |->
         IF vault[n].at = p THEN [vault[n] EXCEPT !.at = "gone"] ELSE vault[n]]
    /\ opener' = [o \in Openers |-> IF HomeOf[o] = p THEN NotOpening ELSE opener[o]]
    /\ UNCHANGED <<link, opened, tick, oldest>>
-----------------------------------------------------------------------------
(***************************************************************************)
(* Opening the link.                                                       *)
(***************************************************************************)
\* payment_count is never written, so a single-use link never refuses.
Usable == link.active /\ (link.expires = Never \/ tick <= link.expires)

Offered(amount) ==
    IF link.fixed THEN amount = link.price
    ELSE /\ link.min # NoPrice => link.min <= amount
         /\ link.max # NoPrice => amount <= link.max

\* Up to the await of the price.
BeginOpen(o, amount) ==
    /\ opener[o] = NotOpening
    /\ Usable /\ Offered(amount)
    /\ opener' = [opener EXCEPT ![o] = [amount |-> amount, views |-> link.views]]
    /\ UNCHANGED <<link, opened, redis, vault, tick, oldest>>

\* The session, its token and the view are one transaction; the token itself
\* is stored outside of it.
FinishOpen(o) ==
    /\ opener[o] # NotOpening
    /\ Len(opened) < MaxOpened
    /\ opened' = Append(opened, [amount |-> opener[o].amount])
    /\ vault' = Append(vault, NewToken(HomeOf[o]))
    /\ Contact(HomeOf[o])
    /\ link' = [link EXCEPT !.views = opener[o].views + 1]
    /\ opener' = [opener EXCEPT ![o] = NotOpening]
    /\ UNCHANGED <<tick, oldest>>

Tick ==
    /\ tick < MaxTick
    /\ tick' = tick + 1
    /\ UNCHANGED <<link, opened, opener, redis, vault, oldest>>

LinkNext ==
    \/ UpdateLink \/ DeleteLink
    \/ \E o \in Openers : FinishOpen(o) \/ \E a \in Prices : BeginOpen(o, a)
    \/ \E p \in Processes : RestartProcess(p) \/ \E n \in DOMAIN vault : ResolveToken(p, n)
    \/ RedisChange \/ Tick

LinkSpec == LinkInit /\ [][LinkNext]_linkVars
-----------------------------------------------------------------------------
(***************************************************************************)
(* Properties.                                                             *)
(***************************************************************************)

\* Requests that overlap lose views, even all but one of them, but the count
\* never says more than were opened, nor nothing once one was.
ViewsAreBacked ==
    /\ link.views <= Len(opened)
    /\ Len(opened) > 0 => link.views > 0

\* "enforce 30 minutes for Token Vault": whatever Redis and the processes go
\* through, no process resolves a token older than that.
TokensAreFresh == oldest <= TokenTTL

\* Links count openings, tokens expire.  (payment_links.py: open_payment_link;
\* payment_tokenization.py: resolve_payment_token)
LinksHold == ViewsAreBacked /\ TokensAreFresh
=============================================================================
