------------------------------- MODULE Sessions -------------------------------
(***************************************************************************)
(* How identities get and keep bearer tokens:                              *)
(* src/src/rrxiv/server/auth/router.py and deps._identity_from_token.      *)
(*                                                                         *)
(* These handlers are plain functions, which FastAPI runs in a threadpool: *)
(* requests interleave between any two store operations. A request is a    *)
(* thread with its place (`pc'), its parameters (`req'), the identity it   *)
(* acts for (`who') and the token it has made (`new').                     *)
(***************************************************************************)
EXTENDS Integers, FiniteSets

CONSTANTS
  Threads,     \* requests the server runs at once
  PasteCodes,  \* codes orcid_render can mint
  Challenges,  \* challenge ids anonymous_challenge can mint
  Tokens,      \* opaque bearers _issue_token can mint
  People,      \* ORCID iDs
  Handles,     \* agent handles
  PublicKeys,  \* agent signing keys
  CodeTTL,     \* life of a code or challenge
  TokenTTL,    \* life of a token, by tier
  Horizon,     \* bound: the clock stops here
  Overlap,     \* TRUE: two requests may be about the same thing at once
  MayCrash,    \* TRUE: the process can die in the middle of requests
  None         \* no row, no token

Codes == PasteCodes \cup Challenges
Tiers == {"orcid", "agent", "anonymous"}
Identity == [tier : {"orcid"}, name : People] \cup [tier : {"agent"}, name : Handles]
            \cup [tier : {"anonymous"}, name : Challenges]
CodeRow == [identity : Identity, expires : Nat, consumed : BOOLEAN]
TokenRow == [identity : Identity, expires : Nat]
Request == [op : {"callback"}, person : People]
      \cup [op : {"exchange"}, code : Codes]
      \cup [op : {"refresh"}, old : Tokens]
      \cup [op : {"enroll"}, handle : Handles, key : PublicKeys]
      \cup [op : {"rotate"}, token : Tokens, key : PublicKeys]
Birth == [by : Request, row : TokenRow]

ASSUME ConstantsAssumption ==
  /\ CodeTTL \in Nat /\ TokenTTL \in [Tiers -> Nat] /\ Horizon \in Nat
  /\ {Overlap, MayCrash} \subseteq BOOLEAN
  /\ PasteCodes \cap Challenges = {}
  /\ None \notin Handles /\ None \notin PublicKeys /\ None \notin Codes /\ None \notin Tokens
  /\ None \notin CodeRow
  /\ None \notin TokenRow /\ None \notin Request /\ None \notin Birth
  /\ None \notin Identity

VARIABLES
  now,     \* the clock
  codes,   \* paste codes and challenges
  tokens,  \* stored tokens
  agents,  \* registered key of each enrolled handle
  pc, req, who, new,
  born,    \* history: which request made a token, and the row it made
  given    \* history: the tokens clients have received

tables == <<codes, tokens, agents>>
vars == <<now, tables, pc, req, who, new, born, given>>

Places == {"consume", "attest", "issue", "revoke", "enroll", "check", "rekey", "reply"}

TypeOK ==
  /\ now \in 0 .. Horizon
  /\ codes \in [Codes -> CodeRow \cup {None}]
  /\ tokens \in [Tokens -> TokenRow \cup {None}]
  /\ agents \in [Handles -> PublicKeys \cup {None}]
  /\ pc \in [Threads -> Places \cup {"idle"}]
  /\ req \in [Threads -> Request \cup {None}]
  /\ \A t \in Threads : pc[t] # "idle" => req[t] # None
  /\ who \in [Threads -> Identity \cup {None}]
  /\ new \in [Threads -> Tokens \cup {None}]
  /\ born \in [Tokens -> Birth \cup {None}]
  /\ given \subseteq Tokens

Init ==
  /\ now = 0
  /\ codes = [c \in Codes |-> None]
  /\ tokens = [k \in Tokens |-> None]
  /\ agents = [h \in Handles |-> None]
  /\ pc = [t \in Threads |-> "idle"]
  /\ req = [t \in Threads |-> None]
  /\ who = [t \in Threads |-> None]
  /\ new = [t \in Threads |-> None]
  /\ born = [k \in Tokens |-> None]
  /\ given = {}

-----------------------------------------------------------------------------
\* `expires_at_unix < now' is expired: the last second still counts.
Expired(row) == row.expires < now
Live(token) == tokens[token] # None /\ ~Expired(tokens[token])

Busy == {t \in Threads : pc[t] # "idle"}

\* Unless requests overlap, no two at once are about the same code, token or
\* handle.
Subject(r) ==
  CASE r.op = "callback" -> None
    [] r.op = "exchange" -> r.code
    [] r.op = "refresh"  -> r.old
    [] r.op = "enroll"   -> r.handle
    [] r.op = "rotate"   -> IF tokens[r.token] = None THEN None
                            ELSE tokens[r.token].identity.name
Alone(r) == ~Overlap => \A t \in Busy : Subject(req[t]) # Subject(r) \/ Subject(r) = None

\* Bound: no request starts that might find no token left to mint.
TokensLeft == Cardinality({k \in Tokens : born[k] = None}) > Cardinality(Busy)

ArriveUnnoted(t, r, identity, place) == \* mutant: the parameters are lost
  /\ pc[t] = "idle" /\ Alone(r) /\ TokensLeft
  /\ pc' = [pc EXCEPT ![t] = place]
  /\ who' = [who EXCEPT ![t] = identity]
  /\ UNCHANGED <<req, new>>

Arrive(t, r, identity, place) ==
  /\ pc[t] = "idle" /\ Alone(r) /\ TokensLeft
  /\ pc' = [pc EXCEPT ![t] = place]
  /\ req' = [req EXCEPT ![t] = r]
  /\ who' = [who EXCEPT ![t] = identity]
  /\ new' = [new EXCEPT ![t] = None]

Goto(t, from, to) ==
  /\ pc[t] = from
  /\ pc' = [pc EXCEPT ![t] = to]

\* The request is answered and its locals are gone.
Finish(t) ==
  /\ pc' = [pc EXCEPT ![t] = "idle"]
  /\ req' = [req EXCEPT ![t] = None]
  /\ who' = [who EXCEPT ![t] = None]
  /\ new' = [new EXCEPT ![t] = None]

-----------------------------------------------------------------------------
(***************************************************************************)
(* Codes.                                                                  *)
(***************************************************************************)

\* orcid_render and anonymous_challenge write one fresh row.
OfferAgain(c, identity) == \* mutant: a code can be minted twice
  /\ codes' = [codes EXCEPT ![c] = [identity |-> identity, expires |-> now + CodeTTL,
                                    consumed |-> FALSE]]
  /\ UNCHANGED <<now, tokens, agents, pc, req, who, new, born, given>>

Offer(c, identity) ==
  /\ codes[c] = None
  /\ codes' = [codes EXCEPT ![c] = [identity |-> identity, expires |-> now + CodeTTL,
                                    consumed |-> FALSE]]
  /\ UNCHANGED <<now, tokens, agents, pc, req, who, new, born, given>>

Render(c, person) == c \in PasteCodes /\ Offer(c, [tier |-> "orcid", name |-> person])
Challenge(c) == c \in Challenges /\ Offer(c, [tier |-> "anonymous", name |-> c])

\* orcid_exchange_paste and anonymous_verify read the row first ...
Exchange(t, c) ==
  /\ codes[c] # None /\ ~codes[c].consumed /\ ~Expired(codes[c])
  /\ Arrive(t, [op |-> "exchange", code |-> c], codes[c].identity, "consume")
  /\ UNCHANGED <<now, tables, born, given>>

\* ... and mark it consumed later. (Reads and rewrites the row; nothing else in
\* it ever changes.)
Consume(t) ==
  /\ Goto(t, "consume", IF req[t].code \in Challenges THEN "attest" ELSE "issue")
  /\ codes' = [codes EXCEPT ![req[t].code].consumed = TRUE]
  /\ UNCHANGED <<now, tokens, agents, req, who, new, born, given>>

\* hCaptcha accepts the response or not; a refusal is a 401.
Attest(t) ==
  /\ pc[t] = "attest"
  /\ \/ Goto(t, "attest", "issue") /\ UNCHANGED <<req, who, new>>
     \/ Finish(t)
  /\ UNCHANGED <<now, tables, born, given>>

-----------------------------------------------------------------------------
(***************************************************************************)
(* Tokens.                                                                 *)
(***************************************************************************)

\* orcid_callback: ORCID resolves the OAuth code to a person.
Callback(t, person) ==
  /\ Arrive(t, [op |-> "callback", person |-> person],
            [tier |-> "orcid", name |-> person], "issue")
  /\ UNCHANGED <<now, tables, born, given>>

\* _issue_token, for every operation that makes one.
Issue(t) ==
  /\ Goto(t, "issue", IF req[t].op = "refresh" THEN "revoke" ELSE "reply")
  /\ \E token \in Tokens :
       LET row == [identity |-> who[t], expires |-> now + TokenTTL[who[t].tier]] IN
       /\ born[token] = None
       /\ tokens' = [tokens EXCEPT ![token] = row]
       /\ born' = [born EXCEPT ![token] = [by |-> req[t], row |-> row]]
       /\ new' = [new EXCEPT ![t] = token]
  /\ UNCHANGED <<now, codes, agents, req, who, given>>

RefreshRevokesFirst(t, old) == \* mutant
  /\ old \in given /\ Live(old) /\ tokens[old].identity.tier # "anonymous"
  /\ Arrive(t, [op |-> "refresh", old |-> old], tokens[old].identity, "issue")
  /\ tokens' = [tokens EXCEPT ![old] = None]
  /\ UNCHANGED <<now, codes, agents, born, given>>

\* refresh_token reads the old token, issues a new one, then revokes the old.
Refresh(t, old) ==
  /\ old \in given /\ Live(old) /\ tokens[old].identity.tier # "anonymous"
  /\ Arrive(t, [op |-> "refresh", old |-> old], tokens[old].identity, "issue")
  /\ UNCHANGED <<now, tables, born, given>>

Revoke(t) ==
  /\ Goto(t, "revoke", "reply")
  /\ tokens' = [tokens EXCEPT ![req[t].old] = None]
  /\ UNCHANGED <<now, codes, agents, req, who, new, born, given>>

\* _identity_from_token: any request that brings an expired token deletes it.
Purge(token) ==
  /\ tokens[token] # None /\ Expired(tokens[token])
  /\ tokens' = [tokens EXCEPT ![token] = None]
  /\ UNCHANGED <<now, codes, agents, pc, req, who, new, born, given>>

-----------------------------------------------------------------------------
(***************************************************************************)
(* Agents.                                                                 *)
(***************************************************************************)

EnrollAnyway(t, handle, key) == \* mutant: does not look the handle up
  /\ Arrive(t, [op |-> "enroll", handle |-> handle, key |-> key],
            [tier |-> "agent", name |-> handle], "enroll")
  /\ UNCHANGED <<now, tables, born, given>>

\* agent_enroll looks the handle up, checks the payload, and adds the row.
Enroll(t, handle, key) ==
  /\ agents[handle] = None
  /\ Arrive(t, [op |-> "enroll", handle |-> handle, key |-> key],
            [tier |-> "agent", name |-> handle], "enroll")
  /\ UNCHANGED <<now, tables, born, given>>

AddAgentOnly(t) == \* mutant: replies without a token
  /\ Goto(t, "enroll", "reply")
  /\ agents' = [agents EXCEPT ![req[t].handle] = req[t].key]
  /\ UNCHANGED <<now, codes, tokens, req, who, new, born, given>>

AddAgent(t) ==
  /\ Goto(t, "enroll", "issue")
  /\ agents' = [agents EXCEPT ![req[t].handle] = req[t].key]
  /\ UNCHANGED <<now, codes, tokens, req, who, new, born, given>>

\* The middleware passes on a rotation that the handle's registered key signed,
\* and leaves expired tokens to the route.
Rotate(t, token, signer, key) ==
  /\ token \in given /\ tokens[token] # None /\ tokens[token].identity.tier = "agent"
  /\ ~Expired(tokens[token]) => agents[tokens[token].identity.name] = signer
  /\ Arrive(t, [op |-> "rotate", token |-> token, key |-> key],
            tokens[token].identity, "check")
  /\ UNCHANGED <<now, tables, born, given>>

\* agent_rotate_key, in its own thread, only needs the token to be there still.
CheckRotation(t) ==
  /\ pc[t] = "check"
  /\ IF tokens[req[t].token] = None THEN Finish(t)
     ELSE Goto(t, "check", "rekey") /\ UNCHANGED <<req, who, new>>
  /\ UNCHANGED <<now, tables, born, given>>

Rekey(t) ==
  /\ Goto(t, "rekey", "reply")
  /\ agents' = [agents EXCEPT ![who[t].name] = req[t].key]
  /\ UNCHANGED <<now, codes, tokens, req, who, new, born, given>>

-----------------------------------------------------------------------------
Reply(t) ==
  /\ pc[t] = "reply" /\ Finish(t)
  /\ given' = given \cup ({new[t]} \ {None})
  /\ UNCHANGED <<now, tables, born>>

\* Every request being handled is lost; the database is not.
Crash ==
  /\ MayCrash /\ Busy # {}
  /\ pc' = [t \in Threads |-> "idle"]
  /\ req' = [t \in Threads |-> None]
  /\ who' = [t \in Threads |-> None]
  /\ new' = [t \in Threads |-> None]
  /\ UNCHANGED <<now, tables, born, given>>

Tick ==
  /\ now < Horizon /\ now' = now + 1
  /\ UNCHANGED <<tables, pc, req, who, new, born, given>>

Receive(t) ==
  \/ \E person \in People : Callback(t, person)
  \/ \E c \in Codes : Exchange(t, c)
  \/ \E old \in Tokens : Refresh(t, old)
  \/ \E handle \in Handles, key \in PublicKeys : Enroll(t, handle, key)
  \/ \E token \in Tokens, signer, key \in PublicKeys : Rotate(t, token, signer, key)

Work(t) ==
  \/ Consume(t) \/ Attest(t) \/ Issue(t) \/ Revoke(t)
  \/ AddAgent(t) \/ CheckRotation(t) \/ Rekey(t) \/ Reply(t)

Next ==
  \/ \E t \in Threads : Receive(t) \/ Work(t)
  \/ \E c \in Codes, person \in People : Render(c, person)
  \/ \E c \in Codes : Challenge(c)
  \/ \E token \in Tokens : Purge(token)
  \/ Crash
  \/ Tick

\* The threadpool runs every request it has started.
Spec == Init /\ [][Next]_vars /\ \A t \in Threads : WF_vars(Work(t))

-----------------------------------------------------------------------------
(***************************************************************************)
(* Properties.                                                             *)
(***************************************************************************)

Bought(c) == {k \in Tokens : born[k] # None /\ born[k].by = [op |-> "exchange", code |-> c]}

\* A paste code or a challenge buys at most one token, through retries and
\* crashes (router.py: "mints a single-use paste code").
CodeSingleUse == \A c \in Codes : \A a, b \in Bought(c) : a = b

\* Codes behave as Vouchers says: offered once, spent once, never again unspent,
\* and they buy only after they are spent.
Ledger == INSTANCE Vouchers WITH
  offered <- {c \in Codes : codes[c] # None},
  spent <- {c \in Codes : codes[c] # None /\ codes[c].consumed},
  bought <- [c \in Codes |-> Bought(c)]
ImplementsVouchers == Ledger!Spec

Refreshes(a, b) == born[b] # None /\ born[b].by = [op |-> "refresh", old |-> a]

\* Whoever refreshes is never left without a token: until the answer is sent the
\* old or the new one is stored, unless its own time ran out.
SessionKept ==
  \A t \in Busy : req[t].op = "refresh" =>
     \/ tokens[req[t].old] # None \/ Expired(born[req[t].old].row)
     \/ new[t] # None /\ (tokens[new[t]] # None \/ Expired(born[new[t]].row))

\* Through any chain of refreshes a token stands for the identity it began with.
RefreshKeepsIdentity ==
  \A a, b \in Tokens : Refreshes(a, b) =>
     /\ born[a].row.identity = born[b].row.identity
     /\ born[a].row.identity.tier # "anonymous"

\* An enrolled handle keeps its key until a rotation replaces it; another
\* enrollment of the handle is refused (router.py: "already taken").
HandleTaken ==
  [][\A h \in Handles : agents[h] # None /\ agents'[h] # agents[h] =>
       \E t \in Threads : pc[t] = "rekey" /\ who[t].name = h]_agents

\* Nothing is left half done while the process lives: a paste code that was
\* taken buys a token (it cannot be presented again), a handle that was taken
\* gets its first token (it can neither be enrolled again nor rotated without
\* one), and the token a refresh replaced is gone, however refreshes overlap
\* (router.py: refresh "revokes the old token atomically"; it is two writes).
NothingHalfDone ==
  /\ \A c \in PasteCodes : (codes[c] # None /\ codes[c].consumed) ~> Bought(c) # {}
  /\ \A h \in Handles :
       agents[h] # None ~> \E k \in Tokens : born[k] # None /\ born[k].row.identity.name = h
  /\ \A a, b \in Tokens : Refreshes(a, b) ~> tokens[a] = None
=============================================================================
