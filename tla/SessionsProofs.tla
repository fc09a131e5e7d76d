---------------------------- MODULE SessionsProofs ----------------------------
(***************************************************************************)
(* Proofs about Sessions, for every value of its constants.                *)
(***************************************************************************)
EXTENDS Sessions, TLAPS

\* Which operations reach which place, and whom they act for.
PlaceInv ==
  \A t \in Busy :
    /\ who[t] \in Identity
    /\ pc[t] \in {"consume", "attest"} => req[t].op = "exchange"
    /\ pc[t] = "consume" => codes[req[t].code] # None
    /\ pc[t] = "revoke" => req[t].op = "refresh"
    /\ pc[t] = "enroll" => req[t].op = "enroll"
    /\ pc[t] \in {"check", "rekey"} => req[t].op = "rotate" /\ who[t].tier = "agent"

-----------------------------------------------------------------------------
(***************************************************************************)
(* Type correctness.                                                       *)
(***************************************************************************)

LEMMA ArriveTypes ==
  ASSUME TypeOK, PlaceInv, NEW t \in Threads, NEW r \in Request,
         NEW identity \in Identity, NEW place \in Places,
         place \in {"consume", "attest"} => r.op = "exchange",
         place = "consume" => codes[r.code] # None,
         place = "revoke" => r.op = "refresh",
         place = "enroll" => r.op = "enroll",
         place \in {"check", "rekey"} => r.op = "rotate" /\ identity.tier = "agent",
         Arrive(t, r, identity, place), UNCHANGED <<now, tables, born, given>>
  PROVE  TypeOK' /\ PlaceInv'
<1>1. /\ pc' \in [Threads -> Places \cup {"idle"}]
      /\ req' \in [Threads -> Request \cup {None}]
      /\ who' \in [Threads -> Identity \cup {None}]
      /\ new' \in [Threads -> Tokens \cup {None}]
  BY DEF Arrive, TypeOK
<1>2. ASSUME NEW u \in Threads
      PROVE  /\ u # t => pc'[u] = pc[u] /\ req'[u] = req[u] /\ who'[u] = who[u]
             /\ u = t => pc'[u] = place /\ req'[u] = r /\ who'[u] = identity
  BY <1>2 DEF Arrive, TypeOK
<1>3. r # None
  BY ConstantsAssumption DEF ConstantsAssumption
<1> QED
  BY <1>1, <1>2, <1>3 DEF TypeOK, PlaceInv, Busy, tables

LEMMA FinishTypes ==
  ASSUME TypeOK, PlaceInv, NEW t \in Threads, Finish(t),
         UNCHANGED <<now, tables, born>>, given' \subseteq Tokens
  PROVE  TypeOK' /\ PlaceInv'
BY DEF TypeOK, PlaceInv, Busy, Finish, tables

LEMMA TypesInductive ==
  ASSUME TypeOK, PlaceInv, [Next]_vars
  PROVE  TypeOK' /\ PlaceInv'
<1>1. ASSUME NEW t \in Threads, NEW person \in People, Callback(t, person)
      PROVE  TypeOK' /\ PlaceInv'
  <2>1. /\ [op |-> "callback", person |-> person] \in Request
        /\ [tier |-> "orcid", name |-> person] \in Identity
    BY DEF Request, Identity
  <2> QED
    BY <1>1, <2>1, ArriveTypes DEF Callback, Places
<1>2. ASSUME NEW t \in Threads, NEW c \in Codes, Exchange(t, c)
      PROVE  TypeOK' /\ PlaceInv'
  <2>1. [op |-> "exchange", code |-> c] \in Request /\ codes[c].identity \in Identity
    BY <1>2 DEF Request, Exchange, TypeOK, CodeRow
  <2> QED
    BY <1>2, <2>1, ArriveTypes DEF Exchange, Places
<1>3. ASSUME NEW t \in Threads, NEW old \in Tokens, Refresh(t, old)
      PROVE  TypeOK' /\ PlaceInv'
  <2>1. [op |-> "refresh", old |-> old] \in Request /\ tokens[old].identity \in Identity
    BY <1>3 DEF Request, Refresh, Live, TypeOK, TokenRow
  <2> QED
    BY <1>3, <2>1, ArriveTypes DEF Refresh, Places
<1>4. ASSUME NEW t \in Threads, NEW handle \in Handles, NEW key \in PublicKeys,
             Enroll(t, handle, key)
      PROVE  TypeOK' /\ PlaceInv'
  <2>1. /\ [op |-> "enroll", handle |-> handle, key |-> key] \in Request
        /\ [tier |-> "agent", name |-> handle] \in Identity
    BY DEF Request, Identity
  <2> QED
    BY <1>4, <2>1, ArriveTypes DEF Enroll, Places
<1>5. ASSUME NEW t \in Threads, NEW token \in Tokens, NEW signer \in PublicKeys,
             NEW key \in PublicKeys, Rotate(t, token, signer, key)
      PROVE  TypeOK' /\ PlaceInv'
  <2>1. /\ [op |-> "rotate", token |-> token, key |-> key] \in Request
        /\ tokens[token].identity \in Identity
    BY <1>5 DEF Request, Rotate, TypeOK, TokenRow
  <2> QED
    BY <1>5, <2>1, ArriveTypes DEF Rotate, Places
<1>6. ASSUME NEW t \in Threads, Consume(t)
      PROVE  TypeOK' /\ PlaceInv'
  <2>1. req[t].code \in Codes
    BY <1>6 DEF Consume, Goto, TypeOK, PlaceInv, Busy, Request
  <2>2. codes[req[t].code] \in CodeRow
    BY <1>6, <2>1 DEF Consume, Goto, TypeOK, PlaceInv, Busy
  <2>3. PICK row \in CodeRow : codes' = [codes EXCEPT ![req[t].code] = row]
    BY <1>6, <2>2 DEF Consume, CodeRow
  <2>4. codes' \in [Codes -> CodeRow \cup {None}]
    BY <2>3 DEF TypeOK
  <2>5. \A c \in Codes : codes[c] # None => codes'[c] # None
    BY <2>3, ConstantsAssumption DEF TypeOK, ConstantsAssumption
  <2>6. PlaceInv'
    BY <1>6, <2>5 DEF Consume, Goto, TypeOK, PlaceInv, Busy, Request
  <2> QED
    BY <1>6, <2>4 , <2>6 DEF Consume, Goto, TypeOK, Places
<1>7. ASSUME NEW t \in Threads, Attest(t)
      PROVE  TypeOK' /\ PlaceInv'
  <2>1. CASE Finish(t)
    BY <1>7, <2>1, FinishTypes DEF Attest, TypeOK
  <2>2. CASE Goto(t, "attest", "issue") /\ UNCHANGED <<req, who, new>>
    BY <1>7, <2>2 DEF Attest, Goto, TypeOK, PlaceInv, Busy, Places, tables
  <2> QED
    BY <1>7, <2>1, <2>2 DEF Attest
<1>8. ASSUME NEW t \in Threads, Issue(t)
      PROVE  TypeOK' /\ PlaceInv'
  <2>1. PICK token \in Tokens :
          LET row == [identity |-> who[t], expires |-> now + TokenTTL[who[t].tier]] IN
          /\ tokens' = [tokens EXCEPT ![token] = row]
          /\ born' = [born EXCEPT ![token] = [by |-> req[t], row |-> row]]
          /\ new' = [new EXCEPT ![t] = token]
    BY <1>8 DEF Issue
  <2>2. /\ pc[t] = "issue" /\ t \in Busy
        /\ pc' = [pc EXCEPT ![t] = IF req[t].op = "refresh" THEN "revoke" ELSE "reply"]
        /\ UNCHANGED <<now, codes, agents, req, who, given>>
    BY <1>8 DEF Issue, Goto, Busy
  <2>3. who[t] \in Identity /\ req[t] \in Request
    BY <2>2 DEF TypeOK, PlaceInv, Busy
  <2>4. who[t].tier \in Tiers
    BY <2>3 DEF Identity, Tiers
  <2>5. now + TokenTTL[who[t].tier] \in Nat
    BY <2>4, ConstantsAssumption DEF ConstantsAssumption, TypeOK
  <2>6. /\ tokens' \in [Tokens -> TokenRow \cup {None}]
        /\ born' \in [Tokens -> Birth \cup {None}]
    BY <2>1, <2>3, <2>5 DEF TypeOK, TokenRow, Birth
  <2>7. PlaceInv'
    BY <2>2 DEF PlaceInv, Busy, TypeOK
  <2> QED
    BY <2>1, <2>2, <2>6, <2>7 DEF TypeOK, Places
<1>9. ASSUME NEW t \in Threads, Revoke(t)
      PROVE  TypeOK' /\ PlaceInv'
  BY <1>9 DEF Revoke, Goto, TypeOK, PlaceInv, Busy, Places
<1>10. ASSUME NEW t \in Threads, AddAgent(t)
       PROVE  TypeOK' /\ PlaceInv'
  <2>1. req[t].handle \in Handles /\ req[t].key \in PublicKeys
    BY <1>10 DEF AddAgent, Goto, TypeOK, PlaceInv, Busy, Request
  <2> QED
    BY <1>10, <2>1 DEF AddAgent, Goto, TypeOK, PlaceInv, Busy, Places
<1>11. ASSUME NEW t \in Threads, CheckRotation(t)
       PROVE  TypeOK' /\ PlaceInv'
  <2>1. CASE Finish(t)
    BY <1>11, <2>1, FinishTypes DEF CheckRotation, TypeOK
  <2>2. CASE Goto(t, "check", "rekey") /\ UNCHANGED <<req, who, new>>
    BY <1>11, <2>2 DEF CheckRotation, Goto, TypeOK, PlaceInv, Busy, Places, tables
  <2> QED
    BY <1>11, <2>1, <2>2 DEF CheckRotation
<1>12. ASSUME NEW t \in Threads, Rekey(t)
       PROVE  TypeOK' /\ PlaceInv'
  <2>1. req[t].key \in PublicKeys
    BY <1>12 DEF Rekey, Goto, TypeOK, PlaceInv, Busy, Request
  <2> QED
    BY <1>12, <2>1 DEF Rekey, Goto, TypeOK, PlaceInv, Busy, Places
<1>13. ASSUME NEW t \in Threads, Reply(t)
       PROVE  TypeOK' /\ PlaceInv'
  BY <1>13, FinishTypes DEF Reply, TypeOK
<1>14. ASSUME NEW c \in Codes, NEW identity \in Identity, Offer(c, identity)
       PROVE  TypeOK' /\ PlaceInv'
  <2>1. codes' \in [Codes -> CodeRow \cup {None}]
    BY <1>14, ConstantsAssumption DEF Offer, TypeOK, CodeRow, ConstantsAssumption
  <2> QED
    BY <1>14, <2>1 DEF Offer, TypeOK, PlaceInv, Busy
<1>15. ASSUME NEW c \in Codes,
              (\E person \in People : Render(c, person)) \/ Challenge(c)
       PROVE  TypeOK' /\ PlaceInv'
  <2>1. \A person \in People : [tier |-> "orcid", name |-> person] \in Identity
    BY DEF Identity
  <2>2. c \in Challenges => [tier |-> "anonymous", name |-> c] \in Identity
    BY DEF Identity
  <2> QED
    BY <1>14, <1>15, <2>1, <2>2 DEF Render, Challenge
<1>16. ASSUME NEW token \in Tokens, Purge(token)
       PROVE  TypeOK' /\ PlaceInv'
  BY <1>16 DEF Purge, TypeOK, PlaceInv, Busy
<1>17. CASE Crash
  BY <1>17 DEF Crash, TypeOK, PlaceInv, Busy, tables
<1>18. CASE Tick
  BY <1>18, ConstantsAssumption DEF Tick, TypeOK, PlaceInv, Busy, tables, ConstantsAssumption
<1>19. CASE UNCHANGED vars
  BY <1>19 DEF vars, TypeOK, PlaceInv, Busy, tables
<1> QED
  BY <1>1, <1>2, <1>3, <1>4, <1>5, <1>6, <1>7, <1>8, <1>9, <1>10, <1>11, <1>12, <1>13,
     <1>15, <1>16, <1>17, <1>18, <1>19 DEF Next, Receive, Work

LEMMA Types == Spec => [](TypeOK /\ PlaceInv)
<1>1. Init => TypeOK /\ PlaceInv
  BY ConstantsAssumption DEF Init, TypeOK, PlaceInv, Busy, ConstantsAssumption
<1> QED
  BY <1>1, TypesInductive, PTL DEF Spec

\* Every code, token, agent row and request has its type in every reachable state.
THEOREM TypeCorrect == Spec => []TypeOK
  BY Types, PTL

-----------------------------------------------------------------------------
(***************************************************************************)
(* Single use. An exchange in progress is alone with its code: nothing has *)
(* been bought with it, and from Consume on it is marked.                  *)
(***************************************************************************)

Exchanging == {t \in Busy : req[t].op = "exchange"}

CodeInv ==
  /\ \A c \in Codes : Bought(c) # {} => codes[c] # None /\ codes[c].consumed
  /\ \A t \in Exchanging :
       /\ codes[req[t].code] # None
       /\ pc[t] \in {"consume", "attest", "issue"} => Bought(req[t].code) = {}
       /\ pc[t] \in {"attest", "issue"} => codes[req[t].code].consumed
       /\ pc[t] = "consume" => ~codes[req[t].code].consumed
  /\ \A t, u \in Exchanging : req[t].code = req[u].code => t = u
  /\ CodeSingleUse

LEMMA ExchangeCodes ==
  ASSUME TypeOK
  PROVE  \A t \in Exchanging : t \in Threads /\ req[t].code \in Codes
BY DEF TypeOK, Exchanging, Busy, Request

\* No exchange starts, and none moves except from attestation to issuing.
Undisturbed ==
  \A t \in Threads : pc'[t] # "idle" /\ req'[t].op = "exchange" =>
    /\ pc[t] # "idle" /\ req'[t] = req[t]
    /\ pc'[t] = pc[t] \/ (pc[t] = "attest" /\ pc'[t] = "issue")

\* A step that touches neither codes nor births, and leaves the exchanges
\* undisturbed, keeps CodeInv and is none of Vouchers' steps.
LEMMA QuietStep ==
  ASSUME TypeOK, CodeInv, codes' = codes, born' = born, Undisturbed
  PROVE  CodeInv' /\ UNCHANGED Ledger!vars
<1>0. Exchanging' \subseteq Exchanging /\ \A t \in Exchanging' : req'[t] = req[t]
  BY DEF Undisturbed, Exchanging, Busy
<1>1. \A c \in Codes : Bought(c)' = Bought(c)
  BY DEF Bought
<1>2. UNCHANGED Ledger!vars
  BY <1>1 DEF Ledger!vars
<1>3. ASSUME NEW t \in Exchanging'
      PROVE  /\ codes'[req'[t].code] # None
             /\ pc'[t] \in {"consume", "attest", "issue"} => Bought(req[t].code)' = {}
             /\ pc'[t] \in {"attest", "issue"} => codes'[req'[t].code].consumed
             /\ pc'[t] = "consume" => ~codes'[req'[t].code].consumed
  <2>1. /\ t \in Exchanging /\ req[t].code \in Codes /\ req'[t] = req[t]
        /\ pc'[t] = pc[t] \/ (pc[t] = "attest" /\ pc'[t] = "issue")
    <3>1. t \in Exchanging
      BY <1>0, <1>3
    <3>2. pc'[t] # "idle" /\ req'[t].op = "exchange"
      BY <1>3 DEF Exchanging, Busy
    <3> QED
      BY <3>1, <3>2, ExchangeCodes DEF Undisturbed
  <2>2. Bought(req[t].code)' = Bought(req[t].code)
    BY <2>1 DEF Bought
  <2> QED
    BY <1>3, <2>1, <2>2 DEF CodeInv
<1>4. CodeSingleUse'
  BY <1>1 DEF CodeInv, CodeSingleUse
<1> QED
  BY <1>0, <1>1, <1>2, <1>3, <1>4 DEF CodeInv

LEMMA ExchangeStep ==
  ASSUME ~Overlap, TypeOK, CodeInv,
         NEW t \in Threads, NEW c \in Codes, Exchange(t, c)
  PROVE  CodeInv' /\ UNCHANGED Ledger!vars
<1>1. /\ codes' = codes /\ born' = born /\ pc[t] = "idle"
      /\ codes[c] # None /\ ~codes[c].consumed
      /\ pc' = [pc EXCEPT ![t] = "consume"]
      /\ req' = [req EXCEPT ![t] = [op |-> "exchange", code |-> c]]
  BY DEF Exchange, Arrive, tables
<1>2. \A d \in Codes : Bought(d)' = Bought(d)
  BY <1>1 DEF Bought
<1>3. Exchanging' = Exchanging \cup {t} /\ t \notin Exchanging
  BY <1>1 DEF Exchanging, Busy, TypeOK
<1>4. \A u \in Exchanging : req'[u] = req[u] /\ pc'[u] = pc[u] /\ req[u].code # c
  <2>1. c # None
    BY ConstantsAssumption DEF ConstantsAssumption
  <2>2. \A u \in Busy : Subject(req[u]) # c
    BY <2>1 DEF Exchange, Arrive, Alone, Subject
  <2>3. \A u \in Exchanging : Subject(req[u]) = req[u].code
    BY DEF Exchanging, Subject
  <2> QED
    BY <1>1, <1>3, <2>2, <2>3 DEF Exchanging, Busy, TypeOK
<1>5. req'[t].code = c /\ pc'[t] = "consume"
  BY <1>1 DEF TypeOK
<1>6. Bought(c)' = {}
  BY <1>1, <1>2 DEF CodeInv
<1>7. \A u \in Exchanging : Bought(req[u].code)' = Bought(req[u].code)
  BY <1>2, <1>4, ExchangeCodes
<1>8. UNCHANGED Ledger!vars
  BY <1>1, <1>2 DEF Ledger!vars
<1>9. CodeSingleUse'
  BY <1>2 DEF CodeInv, CodeSingleUse
<1>10. ASSUME NEW u \in Exchanging'
       PROVE  /\ codes'[req'[u].code] # None
              /\ pc'[u] \in {"consume", "attest", "issue"} => Bought(req[u].code)' = {}
              /\ pc'[u] \in {"attest", "issue"} => codes'[req'[u].code].consumed
              /\ pc'[u] = "consume" => ~codes'[req'[u].code].consumed
  <2>1. CASE u = t
    <3>1. Bought(req[u].code)' = {}
      BY <1>1, <1>5, <1>6, <2>1 DEF Bought
    <3> QED
      BY <1>1, <1>5, <2>1, <3>1
  <2>2. CASE u \in Exchanging
    <3>1. Bought(req[u].code)' = Bought(req[u].code)
      BY <1>1, <1>4, <1>7, <2>2 DEF Bought
    <3> QED
      BY <1>1, <1>4, <2>2, <3>1 DEF CodeInv
  <2> QED
    BY <1>3, <2>1, <2>2
<1> QED
  BY <1>1, <1>2, <1>3, <1>4, <1>5, <1>8, <1>9, <1>10 DEF CodeInv

LEMMA ConsumeStep ==
  ASSUME TypeOK, PlaceInv, CodeInv, NEW t \in Threads, Consume(t)
  PROVE  CodeInv' /\ [Ledger!Next]_(Ledger!vars)
<1> DEFINE c == req[t].code
<1>1. t \in Exchanging /\ c \in Codes /\ pc[t] = "consume"
  BY ExchangeCodes DEF Consume, Goto, PlaceInv, Exchanging, Busy
<1>2. codes[c] \in CodeRow /\ ~codes[c].consumed
  BY <1>1 DEF TypeOK, CodeInv
<1>3. /\ codes' = [codes EXCEPT ![c] = [codes[c] EXCEPT !.consumed = TRUE]]
      /\ born' = born /\ req' = req
      /\ \A u \in Threads \ {t} : pc'[u] = pc[u]
      /\ pc'[t] \in {"attest", "issue"}
  BY <1>1 DEF Consume, Goto, TypeOK
<1>4. /\ codes'[c] \in CodeRow /\ codes'[c] # None /\ codes'[c].consumed
      /\ \A d \in Codes \ {c} : codes'[d] = codes[d]
  <2>1. codes'[c] = [codes[c] EXCEPT !.consumed = TRUE] /\ \A d \in Codes \ {c} : codes'[d] = codes[d]
    BY <1>1, <1>3 DEF TypeOK
  <2>2. PICK row : row = codes[c]
    OBVIOUS
  <2>3. [row EXCEPT !.consumed = TRUE] \in CodeRow /\ [row EXCEPT !.consumed = TRUE].consumed
    BY <1>2, <2>2 DEF CodeRow
  <2>4. None \notin CodeRow
    BY ConstantsAssumption
  <2> QED
    BY <2>1, <2>2, <2>3, <2>4
<1>5. \A d \in Codes : Bought(d)' = Bought(d)
  BY <1>3 DEF Bought
<1>6. Exchanging' = Exchanging
  BY <1>1, <1>3 DEF Exchanging, Busy
<1>7. ASSUME NEW u \in Exchanging'
      PROVE  /\ codes'[req'[u].code] # None
             /\ pc'[u] \in {"consume", "attest", "issue"} => Bought(req[u].code)' = {}
             /\ pc'[u] \in {"attest", "issue"} => codes'[req'[u].code].consumed
             /\ pc'[u] = "consume" => ~codes'[req'[u].code].consumed
  <2>1. u \in Exchanging /\ req[u].code \in Codes /\ u \in Threads
    BY <1>6, <1>7, ExchangeCodes
  <2>2. Bought(req[u].code)' = Bought(req[u].code)
    BY <1>3, <1>5, <2>1 DEF Bought
  <2>3. CASE u = t
    BY <1>1, <1>3, <1>4, <2>2, <2>3 DEF CodeInv
  <2>4. CASE u # t
    <3>1. req[u].code # c
      BY <1>1, <2>1, <2>4 DEF CodeInv
    <3> QED
      BY <1>3, <1>4, <2>1, <2>2, <2>4, <3>1 DEF CodeInv
  <2> QED
    BY <2>3, <2>4
<1>8. CodeInv'
  <2>1. \A d \in Codes : Bought(d)' # {} => codes'[d] # None /\ codes'[d].consumed
    BY <1>4, <1>5 DEF CodeInv
  <2>2. CodeSingleUse'
    BY <1>5 DEF CodeInv, CodeSingleUse
  <2> QED
    BY <1>3, <1>6, <1>7, <2>1, <2>2 DEF CodeInv
<1>9. Ledger!Spend(c)
  <2>1. {d \in Codes : codes'[d] # None} = {d \in Codes : codes[d] # None}
    BY <1>1, <1>2, <1>4, ConstantsAssumption DEF ConstantsAssumption
  <2>2. {d \in Codes : codes'[d] # None /\ codes'[d].consumed}
        = {d \in Codes : codes[d] # None /\ codes[d].consumed} \cup {c}
    BY <1>1, <1>2, <1>4
  <2>3. [d \in Codes |-> Bought(d)'] = [d \in Codes |-> Bought(d)]
    BY <1>5
  <2>4. codes[c] # None
    BY <1>2, ConstantsAssumption DEF ConstantsAssumption
  <2> QED
    BY <1>1, <1>2, <2>1, <2>2, <2>3, <2>4 DEF Ledger!Spend
<1> QED
  BY <1>1, <1>8, <1>9 DEF Ledger!Next, Ledger!Spend

LEMMA IssueStep ==
  ASSUME TypeOK, PlaceInv, CodeInv, NEW t \in Threads, Issue(t)
  PROVE  CodeInv' /\ [Ledger!Next]_(Ledger!vars)
<1>1. /\ pc[t] = "issue" /\ t \in Busy /\ req[t] \in Request
      /\ codes' = codes /\ req' = req
      /\ \A u \in Threads \ {t} : pc'[u] = pc[u]
      /\ pc'[t] \in {"revoke", "reply"}
  BY DEF Issue, Goto, TypeOK, Busy
<1>2. PICK token \in Tokens, row \in TokenRow :
        /\ born[token] = None
        /\ born' = [born EXCEPT ![token] = [by |-> req[t], row |-> row]]
  <2>1. who[t] \in Identity /\ who[t].tier \in Tiers
    BY <1>1 DEF PlaceInv, Identity, Tiers
  <2>2. [identity |-> who[t], expires |-> now + TokenTTL[who[t].tier]] \in TokenRow
    BY <2>1, ConstantsAssumption DEF ConstantsAssumption, TypeOK, TokenRow
  <2> QED
    BY <2>2 DEF Issue
<1>3. /\ born'[token].by = req[t]
      /\ born'[token] # None
      /\ \A k \in Tokens \ {token} : born'[k] = born[k]
  <2>1. [by |-> req[t], row |-> row] \in Birth
    BY <1>1, <1>2 DEF Birth
  <2> QED
    BY <1>2, <2>1, ConstantsAssumption DEF TypeOK, ConstantsAssumption
<1>4. ASSUME NEW d \in Codes
      PROVE  Bought(d)' = IF req[t] = [op |-> "exchange", code |-> d]
                          THEN Bought(d) \cup {token} ELSE Bought(d)
  BY <1>2, <1>3 DEF Bought
<1>5. Exchanging' = Exchanging
  BY <1>1 DEF Exchanging, Busy
<1>6. ASSUME NEW u \in Exchanging, u # t
      PROVE  Bought(req[u].code)' = Bought(req[u].code)
  <2>1. req[u].code \in Codes /\ req'[u].code = req[u].code
    BY <1>1, <1>6, ExchangeCodes
  <2>2. req[t] # [op |-> "exchange", code |-> req[u].code]
    BY <1>1, <1>6 DEF CodeInv, Exchanging
  <2> QED
    BY <1>1, <1>4, <2>1, <2>2 DEF Bought
<1>7. ASSUME NEW u \in Exchanging'
      PROVE  /\ codes'[req'[u].code] # None
             /\ pc'[u] \in {"consume", "attest", "issue"} => Bought(req[u].code)' = {}
             /\ pc'[u] \in {"attest", "issue"} => codes'[req'[u].code].consumed
             /\ pc'[u] = "consume" => ~codes'[req'[u].code].consumed
  BY <1>1, <1>5, <1>6 DEF CodeInv, Exchanging, Busy
<1>8. CASE req[t].op = "exchange"
  <2>1. t \in Exchanging /\ req[t].code \in Codes
    BY <1>1, <1>8, ExchangeCodes DEF Exchanging
  <2>2. PICK c \in Codes : req[t] = [op |-> "exchange", code |-> c]
    BY <1>1, <1>8 DEF Request
  <2>3. Bought(c) = {} /\ codes[c] # None /\ codes[c].consumed
    BY <1>1, <2>1, <2>2 DEF CodeInv
  <2>4. Bought(c)' = {token}
    BY <1>3, <2>2, <2>3 DEF Bought
  <2>5. ASSUME NEW d \in Codes \ {c}
        PROVE  Bought(d)' = Bought(d)
    BY <1>2, <1>3, <2>2 DEF Bought
  <2>6. CodeSingleUse'
    BY <2>4, <2>5 DEF CodeInv, CodeSingleUse
  <2>7. ASSUME NEW d \in Codes, Bought(d)' # {}
        PROVE  codes'[d] # None /\ codes'[d].consumed
    BY <1>1, <2>3, <2>5, <2>7 DEF CodeInv
  <2>8. CodeInv'
    BY <1>1, <1>5, <1>7, <2>6, <2>7 DEF CodeInv
  <2>9. Ledger!Buy(c, token)
    <3>1. [d \in Codes |-> Bought(d)'] = [[d \in Codes |-> Bought(d)] EXCEPT ![c] = {token}]
      BY <2>4, <2>5
    <3> QED
      BY <1>1, <2>3, <3>1 DEF Ledger!Buy
  <2> QED
    BY <2>8, <2>9 DEF Ledger!Next, Ledger!Buy
<1>9. CASE req[t].op # "exchange"
  <2>1. ASSUME NEW d \in Codes
        PROVE  Bought(d)' = Bought(d)
    BY <1>2, <1>3, <1>9 DEF Bought
  <2>2. CodeSingleUse' /\ UNCHANGED Ledger!vars
    BY <1>1, <2>1 DEF CodeInv, CodeSingleUse, Ledger!vars
  <2>3. \A d \in Codes : Bought(d)' # {} => codes'[d] # None /\ codes'[d].consumed
    BY <1>1, <2>1 DEF CodeInv
  <2> QED
    BY <1>1, <1>5, <1>7, <2>2, <2>3 DEF CodeInv
<1> QED
  BY <1>8, <1>9

LEMMA OfferStep ==
  ASSUME TypeOK, CodeInv, NEW c \in Codes, NEW identity \in Identity, Offer(c, identity)
  PROVE  CodeInv' /\ [Ledger!Next]_(Ledger!vars)
<1>1. PICK row \in CodeRow :
        codes[c] = None /\ codes' = [codes EXCEPT ![c] = row] /\ ~row.consumed
  <2> DEFINE row == [identity |-> identity, expires |-> now + CodeTTL, consumed |-> FALSE]
  <2>1. row \in CodeRow /\ ~row.consumed
    BY ConstantsAssumption DEF CodeRow, TypeOK, ConstantsAssumption
  <2>2. codes[c] = None /\ codes' = [codes EXCEPT ![c] = row]
    BY DEF Offer
  <2> HIDE DEF row
  <2> QED
    BY <2>1, <2>2
<1>2. /\ codes'[c] # None /\ ~codes'[c].consumed
      /\ \A d \in Codes \ {c} : codes'[d] = codes[d]
      /\ born' = born /\ pc' = pc /\ req' = req
  BY <1>1, ConstantsAssumption DEF Offer, TypeOK, ConstantsAssumption
<1>3. ASSUME NEW d \in Codes
      PROVE  Bought(d)' = Bought(d)
  BY <1>2 DEF Bought
<1>4. Bought(c) = {}
  BY <1>1 DEF CodeInv
<1>5. Exchanging' = Exchanging
  BY <1>2 DEF Exchanging, Busy
<1>6. ASSUME NEW u \in Exchanging'
      PROVE  /\ codes'[req'[u].code] # None
             /\ pc'[u] \in {"consume", "attest", "issue"} => Bought(req[u].code)' = {}
             /\ pc'[u] \in {"attest", "issue"} => codes'[req'[u].code].consumed
             /\ pc'[u] = "consume" => ~codes'[req'[u].code].consumed
  <2>1. u \in Exchanging /\ req[u].code \in Codes
    BY <1>5, <1>6, ExchangeCodes
  <2>2. req[u].code # c
    BY <1>1, <2>1 DEF CodeInv
  <2>3. Bought(req[u].code)' = Bought(req[u].code)
    BY <1>2, <2>1 DEF Bought
  <2> QED
    BY <1>2, <2>1, <2>2, <2>3 DEF CodeInv
<1>7. CodeSingleUse'
  BY <1>3 DEF CodeInv, CodeSingleUse
<1>8. \A d \in Codes : Bought(d)' # {} => codes'[d] # None /\ codes'[d].consumed
  BY <1>2, <1>3, <1>4 DEF CodeInv
<1>9. CodeInv'
  BY <1>2, <1>5, <1>6, <1>7, <1>8 DEF CodeInv
<1>10. Ledger!Offer(c)
  <2>1. {d \in Codes : codes'[d] # None} = {d \in Codes : codes[d] # None} \cup {c}
    BY <1>2
  <2>2. {d \in Codes : codes'[d] # None /\ codes'[d].consumed}
        = {d \in Codes : codes[d] # None /\ codes[d].consumed}
    BY <1>1, <1>2
  <2>3. [d \in Codes |-> Bought(d)'] = [d \in Codes |-> Bought(d)]
    BY <1>3
  <2> QED
    BY <1>1, <2>1, <2>2, <2>3 DEF Ledger!Offer
<1> QED
  BY <1>9, <1>10 DEF Ledger!Next, Ledger!Offer

\* An arrival of anything but an exchange.
LEMMA OtherArrival ==
  ASSUME TypeOK, CodeInv, NEW t \in Threads, NEW r \in Request, r.op # "exchange",
         NEW identity, NEW place, Arrive(t, r, identity, place),
         codes' = codes, born' = born
  PROVE  CodeInv' /\ UNCHANGED Ledger!vars
<1>1. Undisturbed
  BY DEF Undisturbed, Arrive, TypeOK
<1> QED
  BY <1>1, QuietStep

LEMMA CodesInductive ==
  ASSUME ~Overlap, TypeOK, PlaceInv, CodeInv, [Next]_vars
  PROVE  CodeInv' /\ [Ledger!Next]_(Ledger!vars)
<1>1. ASSUME NEW t \in Threads, NEW person \in People, Callback(t, person)
      PROVE  CodeInv' /\ UNCHANGED Ledger!vars
  <2>1. [op |-> "callback", person |-> person] \in Request
    BY DEF Request
  <2> QED
    BY <1>1, <2>1, OtherArrival DEF Callback, tables
<1>2. ASSUME NEW t \in Threads, NEW old \in Tokens, Refresh(t, old)
      PROVE  CodeInv' /\ UNCHANGED Ledger!vars
  <2>1. [op |-> "refresh", old |-> old] \in Request
    BY DEF Request
  <2> QED
    BY <1>2, <2>1, OtherArrival DEF Refresh, tables
<1>3. ASSUME NEW t \in Threads, NEW handle \in Handles, NEW key \in PublicKeys,
             Enroll(t, handle, key)
      PROVE  CodeInv' /\ UNCHANGED Ledger!vars
  <2>1. [op |-> "enroll", handle |-> handle, key |-> key] \in Request
    BY DEF Request
  <2> QED
    BY <1>3, <2>1, OtherArrival DEF Enroll, tables
<1>4. ASSUME NEW t \in Threads, NEW token \in Tokens, NEW signer \in PublicKeys,
             NEW key \in PublicKeys, Rotate(t, token, signer, key)
      PROVE  CodeInv' /\ UNCHANGED Ledger!vars
  <2>1. [op |-> "rotate", token |-> token, key |-> key] \in Request
    BY DEF Request
  <2> QED
    BY <1>4, <2>1, OtherArrival DEF Rotate, tables
<1>5. ASSUME NEW t \in Threads,
             Attest(t) \/ Revoke(t) \/ AddAgent(t) \/ CheckRotation(t) \/ Rekey(t) \/ Reply(t)
      PROVE  CodeInv' /\ UNCHANGED Ledger!vars
  <2>1. codes' = codes /\ born' = born
    BY <1>5 DEF Attest, Revoke, AddAgent, CheckRotation, Rekey, Reply, tables
  <2>2. Undisturbed
    <3>1. CASE Finish(t)
      BY <3>1 DEF Undisturbed, Finish, TypeOK
    <3>2. CASE Attest(t) /\ ~Finish(t)
      BY <3>2 DEF Undisturbed, Attest, Goto, TypeOK
    <3>3. CASE (Revoke(t) \/ AddAgent(t) \/ CheckRotation(t) \/ Rekey(t)) /\ ~Finish(t)
      BY <3>3 DEF Undisturbed, Revoke, AddAgent, CheckRotation, Rekey, Goto, Busy, TypeOK, PlaceInv
    <3> QED
      BY <1>5, <3>1, <3>2, <3>3 DEF Reply
  <2> QED
    BY <2>1, <2>2, QuietStep
<1>6. ASSUME NEW token \in Tokens, Purge(token)
      PROVE  CodeInv' /\ UNCHANGED Ledger!vars
  <2>1. codes' = codes /\ born' = born /\ Undisturbed
    BY <1>6 DEF Undisturbed, Purge
  <2> QED
    BY <2>1, QuietStep
<1>7. CASE Crash
  <2>1. Undisturbed /\ codes' = codes /\ born' = born
    BY <1>7 DEF Undisturbed, Crash, tables
  <2> QED
    BY <2>1, QuietStep
<1>8. CASE Tick \/ UNCHANGED vars
  <2>1. codes' = codes /\ born' = born /\ Undisturbed
    BY <1>8 DEF Undisturbed, Tick, vars, tables
  <2> QED
    BY <2>1, QuietStep
<1>9. ASSUME NEW c \in Codes, (\E person \in People : Render(c, person)) \/ Challenge(c)
      PROVE  CodeInv' /\ [Ledger!Next]_(Ledger!vars)
  <2>1. \A person \in People : [tier |-> "orcid", name |-> person] \in Identity
    BY DEF Identity
  <2>2. c \in Challenges => [tier |-> "anonymous", name |-> c] \in Identity
    BY DEF Identity
  <2>3. PICK identity \in Identity : Offer(c, identity)
    BY <1>9, <2>1, <2>2 DEF Render, Challenge
  <2> QED
    BY <2>3, OfferStep
<1> QED
  BY <1>1, <1>2, <1>3, <1>4, <1>5, <1>6, <1>7, <1>8, <1>9, ExchangeStep, ConsumeStep, IssueStep
     DEF Next, Receive, Work

LEMMA CodesSafe == ASSUME ~Overlap
                   PROVE  Spec => [](TypeOK /\ PlaceInv /\ CodeInv)
<1>1. Init => CodeInv
  BY DEF Init, CodeInv, Exchanging, Busy, Bought, CodeSingleUse
<1> QED
  BY <1>1, Types, CodesInductive, PTL DEF Spec

\* While no two requests are about the same code, a paste code or a challenge
\* buys at most one token, through retries and crashes between any two of the
\* steps of orcid_exchange_paste and anonymous_verify.
THEOREM SingleUse == ASSUME ~Overlap
                     PROVE  Spec => []CodeSingleUse
<1>1. CodeInv => CodeSingleUse
  BY DEF CodeInv
<1> QED
  BY <1>1, CodesSafe, PTL

\* Then the paste codes and challenges of router.py implement Vouchers.
THEOREM VoucherRefinement == ASSUME ~Overlap
                             PROVE  Spec => ImplementsVouchers
<1>1. Init => Ledger!Init
  BY DEF Init, Ledger!Init, Bought
<1>2. TypeOK /\ PlaceInv /\ CodeInv /\ [Next]_vars => [Ledger!Next]_(Ledger!vars)
  BY CodesInductive
<1> QED
  BY <1>1, <1>2, CodesSafe, PTL DEF Spec, ImplementsVouchers, Ledger!Spec

-----------------------------------------------------------------------------
(***************************************************************************)
(* Refreshes. A stored token is the row it was born with, and a refresh    *)
(* acts for the identity of the token it was given, which has been born.   *)
(***************************************************************************)

Lineal ==
  /\ \A k \in Tokens : tokens[k] # None => born[k] # None /\ tokens[k] = born[k].row
  /\ \A t \in Threads : pc[t] # "idle" /\ req[t].op = "refresh" =>
       /\ born[req[t].old] # None
       /\ who[t] = born[req[t].old].row.identity
       /\ who[t].tier # "anonymous"
  /\ \A a, b \in Tokens : Refreshes(a, b) => born[a] # None
  /\ RefreshKeepsIdentity

LEMMA LinealIssue ==
  ASSUME TypeOK, PlaceInv, Lineal, NEW t \in Threads, Issue(t)
  PROVE  Lineal'
<1> DEFINE row == [identity |-> who[t], expires |-> now + TokenTTL[who[t].tier]]
           birth == [by |-> req[t], row |-> row]
<1>1. PICK token \in Tokens :
        /\ born[token] = None
        /\ tokens' = [tokens EXCEPT ![token] = row]
        /\ born' = [born EXCEPT ![token] = birth]
  BY DEF Issue
<1>2. /\ pc[t] = "issue" /\ req[t] \in Request /\ req' = req /\ who' = who
      /\ \A u \in Threads : pc'[u] # "idle" => pc[u] # "idle"
  BY DEF Issue, Goto, TypeOK
<1>3. birth \in Birth
  <2>1. who[t] \in Identity /\ who[t].tier \in Tiers
    BY <1>2 DEF PlaceInv, Busy, Identity, Tiers
  <2> QED
    BY <1>2, <2>1, ConstantsAssumption DEF ConstantsAssumption, TypeOK, TokenRow, Birth
<1>4. /\ birth # None /\ birth.row = row /\ birth.by = req[t]
      /\ born'[token] = birth /\ tokens'[token] = row
      /\ \A k \in Tokens \ {token} : born'[k] = born[k] /\ tokens'[k] = tokens[k]
  BY <1>1, <1>3, ConstantsAssumption DEF ConstantsAssumption, TypeOK
<1> HIDE DEF birth
<1>5. \A k \in Tokens : tokens'[k] # None => born'[k] # None /\ tokens'[k] = born'[k].row
  BY <1>4 DEF Lineal
<1>6. ASSUME NEW u \in Threads, pc'[u] # "idle", req'[u].op = "refresh"
      PROVE  /\ born'[req'[u].old] # None
             /\ who'[u] = born'[req'[u].old].row.identity
             /\ who'[u].tier # "anonymous"
  <2>1. born[req[u].old] # None /\ req[u].old \in Tokens
    BY <1>2, <1>6 DEF Lineal, TypeOK, Request
  <2>2. born'[req[u].old] = born[req[u].old]
    BY <1>1, <1>4, <2>1
  <2> QED
    BY <1>2, <1>6, <2>1, <2>2 DEF Lineal
<1>7. ASSUME NEW a \in Tokens, NEW b \in Tokens, Refreshes(a, b)'
      PROVE  /\ born'[a] # None
             /\ born'[a].row.identity = born'[b].row.identity
             /\ born'[a].row.identity.tier # "anonymous"
  <2>1. CASE b = token
    <3>1. req[t] = [op |-> "refresh", old |-> a]
      BY <1>4, <1>7, <2>1 DEF Refreshes
    <3>2. born[a] # None /\ who[t] = born[a].row.identity /\ who[t].tier # "anonymous"
      BY <1>2, <3>1 DEF Lineal
    <3>3. born'[a] = born[a] /\ born'[b].row.identity = who[t]
      BY <1>1, <1>4, <2>1, <3>2
    <3> QED
      BY <3>2, <3>3
  <2>2. CASE b # token
    <3>1. born'[b] = born[b] /\ Refreshes(a, b)
      BY <1>4, <1>7, <2>2 DEF Refreshes
    <3>2. born[a] # None
      BY <3>1 DEF Lineal
    <3>3. born'[a] = born[a]
      BY <1>1, <1>4, <3>2
    <3> QED
      BY <3>1, <3>2, <3>3 DEF Lineal, RefreshKeepsIdentity
  <2> QED
    BY <2>1, <2>2
<1> QED
  BY <1>5, <1>6, <1>7 DEF Lineal, RefreshKeepsIdentity

\* A step that stores no token and starts no refresh.
LEMMA LinealKept ==
  ASSUME TypeOK, Lineal, born' = born,
         \A k \in Tokens : tokens'[k] = tokens[k] \/ tokens'[k] = None,
         \A t \in Threads : pc'[t] # "idle" /\ req'[t].op = "refresh" =>
                            pc[t] # "idle" /\ req'[t] = req[t] /\ who'[t] = who[t]
  PROVE  Lineal'
BY DEF Lineal, RefreshKeepsIdentity, Refreshes

LEMMA LinealInductive ==
  ASSUME TypeOK, PlaceInv, Lineal, [Next]_vars
  PROVE  Lineal'
<1>1. ASSUME NEW t \in Threads, NEW person \in People, Callback(t, person)
      PROVE  Lineal'
  BY <1>1, LinealKept DEF Callback, Arrive, tables, TypeOK
<1>2. ASSUME NEW t \in Threads, NEW c \in Codes, Exchange(t, c)
      PROVE  Lineal'
  BY <1>2, LinealKept DEF Exchange, Arrive, tables, TypeOK
<1>3. ASSUME NEW t \in Threads, NEW old \in Tokens, Refresh(t, old)
      PROVE  Lineal'
  <2>1. born[old] # None /\ tokens[old] = born[old].row /\ tokens[old].identity.tier # "anonymous"
    BY <1>3 DEF Refresh, Live, Lineal
  <2>2. tokens' = tokens /\ born' = born
    BY <1>3 DEF Refresh, tables
  <2>3. ASSUME NEW u \in Threads
        PROVE  IF u = t THEN req'[u] = [op |-> "refresh", old |-> old] /\ who'[u] = tokens[old].identity
                        ELSE pc'[u] = pc[u] /\ req'[u] = req[u] /\ who'[u] = who[u]
    BY <1>3 DEF Refresh, Arrive, TypeOK
  <2> QED
    BY <2>1, <2>2, <2>3 DEF Lineal, RefreshKeepsIdentity, Refreshes
<1>4. ASSUME NEW t \in Threads, NEW handle \in Handles, NEW key \in PublicKeys,
             Enroll(t, handle, key)
      PROVE  Lineal'
  BY <1>4, LinealKept DEF Enroll, Arrive, tables, TypeOK
<1>5. ASSUME NEW t \in Threads, NEW token \in Tokens, NEW signer \in PublicKeys,
             NEW key \in PublicKeys, Rotate(t, token, signer, key)
      PROVE  Lineal'
  BY <1>5, LinealKept DEF Rotate, Arrive, tables, TypeOK
<1>6. ASSUME NEW t \in Threads, Consume(t) \/ AddAgent(t) \/ Rekey(t)
      PROVE  Lineal'
  BY <1>6, LinealKept DEF Consume, AddAgent, Rekey, Goto, TypeOK
<1>7. ASSUME NEW t \in Threads, Attest(t) \/ CheckRotation(t) \/ Reply(t)
      PROVE  Lineal'
  <2>1. CASE Finish(t)
    BY <1>7, <2>1, LinealKept DEF Finish, Attest, CheckRotation, Reply, tables, TypeOK
  <2>2. CASE ~Finish(t)
    BY <1>7, <2>2, LinealKept DEF Attest, CheckRotation, Reply, Goto, tables, TypeOK
  <2> QED
    BY <2>1, <2>2
<1>8. ASSUME NEW t \in Threads, Revoke(t)
      PROVE  Lineal'
  BY <1>8, LinealKept DEF Revoke, Goto, TypeOK
<1>9. ASSUME NEW token \in Tokens, Purge(token)
      PROVE  Lineal'
  BY <1>9, LinealKept DEF Purge, TypeOK
<1>10. ASSUME NEW c \in Codes,
              (\E person \in People : Render(c, person)) \/ Challenge(c)
       PROVE  Lineal'
  BY <1>10, LinealKept DEF Render, Challenge, Offer
<1>11. CASE Crash
  BY <1>11, LinealKept DEF Crash, tables
<1>12. CASE Tick \/ UNCHANGED vars
  BY <1>12, LinealKept DEF Tick, vars, tables
<1> QED
  BY <1>1, <1>2, <1>3, <1>4, <1>5, <1>6, <1>7, <1>8, <1>9, <1>10, <1>11, <1>12, LinealIssue
     DEF Next, Receive, Work

\* refresh_token hands on the identity it was called with, however requests
\* overlap and wherever the process dies, and never refreshes an anonymous token.
THEOREM IdentityKept == Spec => []RefreshKeepsIdentity
<1>1. Init => Lineal
  BY DEF Init, Lineal, RefreshKeepsIdentity, Refreshes
<1>2. Lineal => RefreshKeepsIdentity
  BY DEF Lineal
<1> QED
  BY <1>1, <1>2, Types, LinealInductive, PTL DEF Spec

-----------------------------------------------------------------------------
(***************************************************************************)
(* Whoever refreshes keeps a token, while requests about one token do not  *)
(* overlap: the old token is nobody else's to revoke, and the new one is   *)
(* in nobody's hands before the answer.                                    *)
(***************************************************************************)

Refreshing == {t \in Busy : req[t].op = "refresh"}

\* Tokens revoked before their time.
CutShort == {k \in Tokens : born[k] # None /\ tokens[k] = None /\ ~Expired(born[k].row)}

RefreshInv ==
  /\ \A k \in given : born[k] # None
  /\ \A t \in Threads : new[t] # None => t \in Busy /\ born[new[t]] # None /\ new[t] \notin given
  /\ \A t, u \in Threads : new[t] = new[u] /\ new[t] # None => t = u
  /\ \A t, u \in Refreshing : req[t].old = req[u].old => t = u
  /\ \A t \in Refreshing :
       /\ req[t].old \in given /\ pc[t] \in {"issue", "revoke", "reply"}
       /\ pc[t] = "issue" => req[t].old \notin CutShort
       /\ pc[t] \in {"revoke", "reply"} => new[t] # None /\ new[t] \notin CutShort

\* Time passes, and only an expired token is deleted.
LEMMA NoneCutShort ==
  ASSUME TypeOK, Lineal, born' = born, now' = now \/ now' = now + 1,
         \A k \in Tokens : tokens'[k] = tokens[k] \/ (tokens[k] # None /\ Expired(tokens[k]))
  PROVE  CutShort' \subseteq CutShort
<1> SUFFICES ASSUME NEW k \in CutShort', k \notin CutShort PROVE FALSE
  OBVIOUS
<1>1. k \in Tokens /\ born[k] # None /\ tokens'[k] = None /\ ~(born[k].row.expires < now')
  BY DEF CutShort, Expired
<1>2. born[k].row.expires \in Nat /\ now \in Nat /\ now' \in Nat /\ now' >= now
  BY <1>1 DEF TypeOK, Birth, TokenRow
<1>3. tokens[k] # None \/ born[k].row.expires < now
  BY <1>1 DEF CutShort, Expired
<1>4. tokens[k] # None => tokens[k].expires < now /\ tokens[k] = born[k].row
  BY <1>1 DEF Lineal, Expired
<1> QED
  BY <1>1, <1>2, <1>3, <1>4

\* A step that makes no token, hands none out, and deletes expired ones only.
LEMMA RefreshKept ==
  ASSUME TypeOK, Lineal, RefreshInv, born' = born, given' = given, now' = now \/ now' = now + 1,
         \A k \in Tokens : tokens'[k] = tokens[k] \/ (tokens[k] # None /\ Expired(tokens[k])),
         \A t \in Threads : new'[t] = None \/ (new'[t] = new[t] /\ pc'[t] # "idle"),
         \A t \in Refreshing' :
           t \in Refreshing /\ req'[t] = req[t] /\ pc'[t] = pc[t] /\ new'[t] = new[t]
  PROVE  RefreshInv'
<1>1. CutShort' \subseteq CutShort
  BY NoneCutShort
<1> HIDE DEF CutShort
<1>2. \A t \in Threads : new'[t] # None =>
        new'[t] = new[t] /\ t \in Busy' /\ born'[new'[t]] # None /\ new'[t] \notin given'
  BY DEF RefreshInv, Busy
<1>3. \A k \in given' : born'[k] # None
  BY DEF RefreshInv
<1>4. \A t, u \in Threads : new'[t] = new'[u] /\ new'[t] # None => t = u
  BY <1>2 DEF RefreshInv
<1>5. \A t, u \in Refreshing' : req'[t].old = req'[u].old => t = u
  BY DEF RefreshInv
<1>6. ASSUME NEW t \in Refreshing'
      PROVE  /\ req'[t].old \in given' /\ pc'[t] \in {"issue", "revoke", "reply"}
             /\ pc'[t] = "issue" => req'[t].old \notin CutShort'
             /\ pc'[t] \in {"revoke", "reply"} => new'[t] # None /\ new'[t] \notin CutShort'
  BY <1>1 DEF RefreshInv
<1> QED
  BY <1>2, <1>3, <1>4, <1>5, <1>6 DEF RefreshInv

\* One more refresh, of a token no other is refreshing.
LEMMA RefreshBegins ==
  ASSUME ~Overlap, TypeOK, Lineal, RefreshInv, NEW t \in Threads, NEW old \in Tokens, Refresh(t, old)
  PROVE  RefreshInv'
<1> DEFINE r == [op |-> "refresh", old |-> old]
<1>1. /\ pc' = [pc EXCEPT ![t] = "issue"] /\ req' = [req EXCEPT ![t] = r]
      /\ new' = [new EXCEPT ![t] = None] /\ pc[t] = "idle"
      /\ UNCHANGED <<now, tokens, born, given>> /\ old \in given /\ tokens[old] # None
  BY DEF Refresh, Arrive, Live, tables
<1>2. ASSUME NEW u \in Refreshing PROVE req[u].old # old
  <2>1. Subject(req[u]) # old \/ old = None
    BY DEF Refresh, Arrive, Alone, Subject, Refreshing
  <2>2. Subject(req[u]) = req[u].old
    BY DEF Subject, Refreshing
  <2> QED
    BY <2>1, <2>2, ConstantsAssumption DEF ConstantsAssumption
<1>3. CutShort' = CutShort /\ old \notin CutShort
  BY <1>1 DEF CutShort, Expired
<1>4. /\ \A u \in Threads \ {t} : pc'[u] = pc[u] /\ req'[u] = req[u] /\ new'[u] = new[u]
      /\ pc'[t] = "issue" /\ req'[t] = r /\ new'[t] = None
  BY <1>1 DEF TypeOK
<1>5. Refreshing' = Refreshing \cup {t} /\ t \notin Refreshing /\ Busy' = Busy \cup {t}
      /\ Refreshing \subseteq Threads
  BY <1>1, <1>4 DEF Refreshing, Busy
<1>6. \A u, v \in Refreshing' : req'[u].old = req'[v].old => u = v
  BY <1>2, <1>4, <1>5 DEF RefreshInv
<1>7. \A u, v \in Threads : new'[u] = new'[v] /\ new'[u] # None => u = v
  BY <1>4 DEF RefreshInv
<1> HIDE DEF CutShort
<1> QED
  BY <1>1, <1>3, <1>4, <1>5, <1>6, <1>7 DEF RefreshInv

\* The token issued is new to everyone.
LEMMA RefreshIssues ==
  ASSUME TypeOK, PlaceInv, Lineal, RefreshInv, NEW t \in Threads, Issue(t)
  PROVE  RefreshInv'
<1> DEFINE row == [identity |-> who[t], expires |-> now + TokenTTL[who[t].tier]]
           birth == [by |-> req[t], row |-> row]
<1>1. PICK token \in Tokens :
        /\ born[token] = None
        /\ tokens' = [tokens EXCEPT ![token] = row]
        /\ born' = [born EXCEPT ![token] = birth]
        /\ new' = [new EXCEPT ![t] = token]
  BY DEF Issue
<1>2. /\ pc[t] = "issue" /\ req[t] \in Request
      /\ pc' = [pc EXCEPT ![t] = IF req[t].op = "refresh" THEN "revoke" ELSE "reply"]
      /\ UNCHANGED <<now, req, given>>
  BY DEF Issue, Goto, TypeOK
<1>3. birth \in Birth /\ row \in TokenRow
  <2>1. who[t] \in Identity /\ who[t].tier \in Tiers
    BY <1>2 DEF PlaceInv, Busy, Identity, Tiers
  <2> QED
    BY <1>2, <2>1, ConstantsAssumption DEF ConstantsAssumption, TypeOK, TokenRow, Birth
<1>4. /\ born'[token] # None /\ tokens'[token] # None
      /\ \A k \in Tokens \ {token} : born'[k] = born[k] /\ tokens'[k] = tokens[k]
  BY <1>1, <1>3, ConstantsAssumption DEF ConstantsAssumption, TypeOK
<1> HIDE DEF birth, row
<1>5. token \notin given /\ \A u \in Threads : new[u] # token
  BY <1>1, ConstantsAssumption DEF RefreshInv, ConstantsAssumption
<1>6. CutShort' \subseteq CutShort /\ token \notin CutShort'
  BY <1>2, <1>4 DEF CutShort, Expired
<1>7. /\ \A u \in Threads \ {t} : pc'[u] = pc[u] /\ new'[u] = new[u]
      /\ pc'[t] \in {"revoke", "reply"} /\ new'[t] = token
  BY <1>1, <1>2 DEF TypeOK
<1>8. Busy' = Busy /\ t \in Busy /\ Refreshing' = Refreshing /\ Refreshing \subseteq Threads
  BY <1>2, <1>7 DEF Busy, Refreshing
<1>9. token # None /\ \A k \in Tokens : born[k] # None => born'[k] # None
  BY <1>1, <1>4, ConstantsAssumption DEF ConstantsAssumption
<1>10. \A k \in given' : born'[k] # None
  BY <1>2, <1>9 DEF RefreshInv, TypeOK
<1>11. \A u \in Threads : new'[u] # None => u \in Busy' /\ born'[new'[u]] # None /\ new'[u] \notin given'
  BY <1>2, <1>4, <1>5, <1>7, <1>8, <1>9 DEF RefreshInv, TypeOK
<1>12. \A u, v \in Threads : new'[u] = new'[v] /\ new'[u] # None => u = v
  BY <1>5, <1>7 DEF RefreshInv
<1> HIDE DEF CutShort, Refreshing, Busy
<1> QED
  BY <1>2, <1>6, <1>7, <1>8, <1>9, <1>10, <1>11, <1>12 DEF RefreshInv

\* What a refresh revokes is no other's old or new token.
LEMMA RefreshRevokes ==
  ASSUME TypeOK, PlaceInv, RefreshInv, NEW t \in Threads, Revoke(t)
  PROVE  RefreshInv'
<1> DEFINE old == req[t].old
<1>1. /\ pc[t] = "revoke" /\ pc' = [pc EXCEPT ![t] = "reply"]
      /\ tokens' = [tokens EXCEPT ![old] = None]
      /\ UNCHANGED <<now, req, new, born, given>>
  BY DEF Revoke, Goto
<1>2. t \in Refreshing /\ old \in given /\ old \in Tokens
  BY <1>1 DEF PlaceInv, Refreshing, Busy, RefreshInv, TypeOK
<1>3. CutShort' \subseteq CutShort \cup {old}
  BY <1>1 DEF CutShort, Expired, TypeOK
<1>4. /\ \A u \in Threads \ {t} : pc'[u] = pc[u]
      /\ pc'[t] = "reply"
  BY <1>1 DEF TypeOK
<1>5. Busy' = Busy /\ Refreshing' = Refreshing /\ Refreshing \subseteq Threads
  BY <1>1, <1>4 DEF Busy, Refreshing
<1>6. \A u \in Refreshing \ {t} : req[u].old # old
  BY <1>2 DEF RefreshInv
<1>7. \A u \in Threads : new[u] # None => new[u] # old
  BY <1>2 DEF RefreshInv
<1> HIDE DEF CutShort, Refreshing, Busy, old
<1> QED
  BY <1>1, <1>2, <1>3, <1>4, <1>5, <1>6, <1>7 DEF RefreshInv

\* The answer hands the token out.
LEMMA RefreshReplies ==
  ASSUME TypeOK, RefreshInv, NEW t \in Threads, Reply(t)
  PROVE  RefreshInv'
<1>1. /\ pc' = [pc EXCEPT ![t] = "idle"] /\ new' = [new EXCEPT ![t] = None]
      /\ req' = [req EXCEPT ![t] = None]
      /\ given' = given \cup ({new[t]} \ {None})
      /\ UNCHANGED <<now, tokens, born>>
  BY DEF Reply, Finish, tables
<1>2. /\ \A u \in Threads \ {t} : pc'[u] = pc[u] /\ req'[u] = req[u] /\ new'[u] = new[u]
      /\ pc'[t] = "idle" /\ new'[t] = None
  BY <1>1 DEF TypeOK
<1>3. Busy' = Busy \ {t} /\ Refreshing' = Refreshing \ {t} /\ Refreshing \subseteq Threads
  BY <1>2 DEF Busy, Refreshing
<1>4. CutShort' = CutShort
  BY <1>1 DEF CutShort, Expired
<1>5. \A u \in Threads \ {t} : new[u] # None => new[u] \notin given'
  BY <1>1 DEF RefreshInv
<1> HIDE DEF CutShort, Refreshing, Busy
<1> QED
  BY <1>1, <1>2, <1>3, <1>4, <1>5 DEF RefreshInv

\* An arrival of anything but a refresh.
LEMMA RefreshArrival ==
  ASSUME TypeOK, Lineal, RefreshInv, NEW t \in Threads, NEW r, r.op # "refresh",
         NEW identity, NEW place, place # "idle", Arrive(t, r, identity, place),
         UNCHANGED <<now, tables, born, given>>
  PROVE  RefreshInv'
<1>1. /\ \A u \in Threads \ {t} : pc'[u] = pc[u] /\ req'[u] = req[u] /\ new'[u] = new[u]
      /\ req'[t] = r /\ new'[t] = None
  BY DEF Arrive, TypeOK
<1>2. \A u \in Threads : new'[u] = None \/ (new'[u] = new[u] /\ pc'[u] # "idle")
  BY <1>1 DEF RefreshInv, Busy
<1>3. \A u \in Refreshing' :
        u \in Refreshing /\ req'[u] = req[u] /\ pc'[u] = pc[u] /\ new'[u] = new[u]
  BY <1>1 DEF Refreshing, Busy
<1> QED
  BY <1>2, <1>3, RefreshKept DEF tables

LEMMA RefreshInductive ==
  ASSUME ~Overlap, TypeOK, PlaceInv, Lineal, RefreshInv, [Next]_vars
  PROVE  RefreshInv'
<1>1. ASSUME NEW t \in Threads, NEW person \in People, Callback(t, person)
      PROVE  RefreshInv'
  BY <1>1, RefreshArrival DEF Callback
<1>2. ASSUME NEW t \in Threads, NEW c \in Codes, Exchange(t, c)
      PROVE  RefreshInv'
  BY <1>2, RefreshArrival DEF Exchange
<1>3. ASSUME NEW t \in Threads, NEW handle \in Handles, NEW key \in PublicKeys,
             Enroll(t, handle, key)
      PROVE  RefreshInv'
  BY <1>3, RefreshArrival DEF Enroll
<1>4. ASSUME NEW t \in Threads, NEW token \in Tokens, NEW signer \in PublicKeys,
             NEW key \in PublicKeys, Rotate(t, token, signer, key)
      PROVE  RefreshInv'
  BY <1>4, RefreshArrival DEF Rotate
<1>5. ASSUME NEW t \in Threads, Consume(t) \/ AddAgent(t) \/ Rekey(t)
      PROVE  RefreshInv'
  <2>1. /\ pc[t] # "idle" /\ req[t].op # "refresh"
        /\ \A u \in Threads \ {t} : pc'[u] = pc[u]
        /\ pc'[t] # "idle"
        /\ UNCHANGED <<now, tokens, req, new, born, given>>
    BY <1>5 DEF Consume, AddAgent, Rekey, Goto, TypeOK, PlaceInv, Busy
  <2>2. \A u \in Threads : new'[u] = None \/ (new'[u] = new[u] /\ pc'[u] # "idle")
    BY <2>1 DEF RefreshInv, Busy
  <2>3. \A u \in Refreshing' :
          u \in Refreshing /\ req'[u] = req[u] /\ pc'[u] = pc[u] /\ new'[u] = new[u]
    BY <2>1 DEF Refreshing, Busy
  <2> QED
    BY <2>1, <2>2, <2>3, RefreshKept
<1>6. ASSUME NEW t \in Threads, Attest(t) \/ CheckRotation(t)
      PROVE  RefreshInv'
  <2>1. /\ pc[t] # "idle" /\ req[t].op # "refresh"
        /\ \A u \in Threads \ {t} : pc'[u] = pc[u] /\ req'[u] = req[u] /\ new'[u] = new[u]
        /\ \/ pc'[t] = "idle" /\ new'[t] = None
           \/ pc'[t] # "idle" /\ req'[t] = req[t] /\ new'[t] = new[t]
        /\ UNCHANGED <<now, tokens, born, given>>
    BY <1>6 DEF Attest, CheckRotation, Finish, Goto, tables, TypeOK, PlaceInv, Busy
  <2>2. \A u \in Threads : new'[u] = None \/ (new'[u] = new[u] /\ pc'[u] # "idle")
    BY <2>1 DEF RefreshInv, Busy
  <2>3. \A u \in Refreshing' :
          u \in Refreshing /\ req'[u] = req[u] /\ pc'[u] = pc[u] /\ new'[u] = new[u]
    BY <2>1 DEF Refreshing, Busy
  <2> QED
    BY <2>1, <2>2, <2>3, RefreshKept
<1>7. ASSUME NEW token \in Tokens, Purge(token)
      PROVE  RefreshInv'
  BY <1>7, RefreshKept DEF Purge, TypeOK, Refreshing, Busy, RefreshInv
<1>8. ASSUME NEW c \in Codes,
              (\E person \in People : Render(c, person)) \/ Challenge(c)
       PROVE  RefreshInv'
  BY <1>8, RefreshKept DEF Render, Challenge, Offer, Refreshing, Busy, RefreshInv
<1>9. CASE Crash
  BY <1>9, RefreshKept DEF Crash, tables, Refreshing, Busy
<1>10. CASE Tick \/ UNCHANGED vars
  BY <1>10, RefreshKept DEF Tick, vars, tables, Refreshing, Busy, RefreshInv
<1> QED
  BY <1>1, <1>2, <1>3, <1>4, <1>5, <1>6, <1>7, <1>8, <1>9, <1>10,
     RefreshBegins, RefreshIssues, RefreshRevokes, RefreshReplies DEF Next, Receive, Work

\* Whoever refreshes is never left without a token: through crashes, other refreshes,
\* and the deletion of expired tokens by any request, the old token or the new one is
\* stored until the answer is sent, unless its time ran out.
THEOREM RefreshSafe == ASSUME ~Overlap
                       PROVE  Spec => []SessionKept
<1>1. Init => Lineal /\ RefreshInv
  BY DEF Init, Lineal, RefreshKeepsIdentity, Refreshes, RefreshInv, Refreshing, Busy
<1>2. TypeOK /\ Lineal /\ RefreshInv => SessionKept
  <2> SUFFICES ASSUME TypeOK, Lineal, RefreshInv, NEW t \in Refreshing
               PROVE  \/ tokens[req[t].old] # None \/ Expired(born[req[t].old].row)
                      \/ new[t] # None /\ (tokens[new[t]] # None \/ Expired(born[new[t]].row))
    BY DEF SessionKept, Refreshing
  <2>1. CASE pc[t] = "issue"
    BY <2>1 DEF RefreshInv, CutShort, TypeOK
  <2>2. CASE pc[t] \in {"revoke", "reply"}
    <3>1. new[t] # None /\ new[t] \in Tokens /\ born[new[t]] # None /\ new[t] \notin CutShort
      BY <2>2 DEF RefreshInv, TypeOK, Refreshing, Busy
    <3> QED
      BY <3>1 DEF CutShort
  <2> QED
    BY <2>1, <2>2 DEF RefreshInv
<1>3. Spec => [](Lineal /\ RefreshInv)
  BY <1>1, LinealInductive, RefreshInductive, Types, PTL DEF Spec
<1> QED
  BY <1>2, <1>3, Types, PTL

-----------------------------------------------------------------------------
(***************************************************************************)
(* Handles: taken once, and nobody acts for one that is not.               *)
(***************************************************************************)

\* While requests about one handle do not overlap, an enrollment finds its handle
\* free until it adds the row, and whoever acts for a handle finds it enrolled.
HandleInv ==
  /\ \A c \in Codes : codes[c] # None => codes[c].identity.tier # "agent"
  /\ \A t \in Threads : pc[t] = "enroll" => agents[req[t].handle] = None /\ who[t].name = req[t].handle
  /\ \A t, u \in Threads : pc[t] = "enroll" /\ pc[u] = "enroll" /\ req[t].handle = req[u].handle => t = u
  /\ \A t \in Busy : who[t].tier = "agent" /\ pc[t] # "enroll" => agents[who[t].name] # None
  /\ \A k \in Tokens : tokens[k] # None /\ tokens[k].identity.tier = "agent" =>
       agents[tokens[k].identity.name] # None

\* A step that writes no agent row and enrolls nobody.
LEMMA HandleKept ==
  ASSUME TypeOK, HandleInv, UNCHANGED <<codes, agents>>,
         \A k \in Tokens : tokens'[k] = tokens[k] \/ tokens'[k] = None,
         \A t \in Threads : pc'[t] = "enroll" =>
           pc[t] = "enroll" /\ req'[t] = req[t] /\ who'[t] = who[t],
         \A t \in Threads : pc'[t] \notin {"idle", "enroll"} =>
           \/ pc[t] \notin {"idle", "enroll"} /\ who'[t] = who[t]
           \/ who'[t].tier = "agent" => agents[who'[t].name] # None
  PROVE  HandleInv'
<1>1. \A t \in Busy' : who'[t].tier = "agent" /\ pc'[t] # "enroll" => agents[who'[t].name] # None
  BY DEF HandleInv, Busy
<1>2. \A t \in Threads : pc'[t] = "enroll" =>
        agents'[req'[t].handle] = None /\ who'[t].name = req'[t].handle
  BY DEF HandleInv
<1>3. \A t, u \in Threads : pc'[t] = "enroll" /\ pc'[u] = "enroll" /\ req'[t].handle = req'[u].handle => t = u
  BY DEF HandleInv
<1>4. \A k \in Tokens : tokens'[k] # None /\ tokens'[k].identity.tier = "agent" =>
        agents[tokens'[k].identity.name] # None
  BY DEF HandleInv
<1> QED
  BY <1>1, <1>2, <1>3, <1>4 DEF HandleInv

\* An arrival of anything but an enrollment.
LEMMA HandleArrival ==
  ASSUME TypeOK, HandleInv, NEW t \in Threads, NEW r, NEW identity, NEW place, place # "enroll",
         Arrive(t, r, identity, place), UNCHANGED <<now, tables, born, given>>,
         identity.tier = "agent" => agents[identity.name] # None
  PROVE  HandleInv'
<1>1. /\ \A u \in Threads \ {t} : pc'[u] = pc[u] /\ req'[u] = req[u] /\ who'[u] = who[u]
      /\ pc'[t] = place /\ who'[t] = identity
  BY DEF Arrive, TypeOK
<1> QED
  BY <1>1, HandleKept DEF tables

\* One more enrollment, of a handle no other is about.
LEMMA HandleEnrolls ==
  ASSUME ~Overlap, TypeOK, PlaceInv, HandleInv, NEW t \in Threads, NEW handle \in Handles,
         NEW key \in PublicKeys, Enroll(t, handle, key)
  PROVE  HandleInv'
<1> DEFINE r == [op |-> "enroll", handle |-> handle, key |-> key]
<1>1. /\ \A u \in Threads \ {t} : pc'[u] = pc[u] /\ req'[u] = req[u] /\ who'[u] = who[u]
      /\ pc'[t] = "enroll" /\ req'[t] = r /\ who'[t] = [tier |-> "agent", name |-> handle]
      /\ UNCHANGED <<codes, tokens, agents>> /\ agents[handle] = None
  BY DEF Enroll, Arrive, TypeOK, tables
<1>2. ASSUME NEW u \in Threads, pc[u] = "enroll" PROVE req[u].handle # handle
  <2>1. Subject(req[u]) # handle \/ handle = None
    <3>1. Subject(r) = handle
      BY DEF Subject
    <3>2. Alone(r)
      BY DEF Enroll, Arrive
    <3> QED
      BY <1>2, <3>1, <3>2 DEF Alone, Busy
  <2>2. Subject(req[u]) = req[u].handle
    BY <1>2 DEF Subject, PlaceInv, Busy
  <2> QED
    BY <2>1, <2>2, ConstantsAssumption DEF ConstantsAssumption
<1>3. \A u, v \in Threads : pc'[u] = "enroll" /\ pc'[v] = "enroll" /\ req'[u].handle = req'[v].handle => u = v
  BY <1>1, <1>2 DEF HandleInv
<1> QED
  BY <1>1, <1>3 DEF HandleInv, Busy

\* The row is added for a handle that had none.
LEMMA HandleAdds ==
  ASSUME TypeOK, PlaceInv, HandleInv, NEW t \in Threads, AddAgent(t)
  PROVE  /\ HandleInv'
         /\ agents[req[t].handle] = None
<1>1. /\ pc[t] = "enroll" /\ pc' = [pc EXCEPT ![t] = "issue"]
      /\ agents' = [agents EXCEPT ![req[t].handle] = req[t].key]
      /\ UNCHANGED <<codes, tokens, req, who>>
  BY DEF AddAgent, Goto
<1>2. req[t].handle \in Handles /\ req[t].key \in PublicKeys
  BY <1>1 DEF TypeOK, PlaceInv, Busy, Request
<1>3. agents[req[t].handle] = None /\ who[t].name = req[t].handle
  BY <1>1 DEF HandleInv
<1>4. /\ agents'[req[t].handle] # None
      /\ \A h \in Handles : h # req[t].handle => agents'[h] = agents[h]
  BY <1>1, <1>2, ConstantsAssumption DEF ConstantsAssumption, TypeOK
<1>5. /\ \A u \in Threads \ {t} : pc'[u] = pc[u]
      /\ pc'[t] = "issue"
  BY <1>1 DEF TypeOK
<1>6. ASSUME NEW u \in Threads, pc'[u] = "enroll"
      PROVE  agents'[req'[u].handle] = None /\ who'[u].name = req'[u].handle
  <2>1. pc[u] = "enroll" /\ u # t /\ req[u].handle \in Handles
    BY <1>5, <1>6 DEF TypeOK, PlaceInv, Busy, Request
  <2> QED
    BY <1>1, <1>4, <2>1 DEF HandleInv
<1>7. ASSUME NEW u \in Busy', who'[u].tier = "agent", pc'[u] # "enroll"
      PROVE  agents'[who'[u].name] # None
  <2>1. u \in Busy /\ who[u].name \in Handles
    BY <1>1, <1>5, <1>7 DEF Busy, PlaceInv, Identity
  <2> QED
    BY <1>1, <1>3, <1>4, <1>5, <1>7, <2>1 DEF HandleInv
<1>8. ASSUME NEW k \in Tokens, tokens[k] # None, tokens[k].identity.tier = "agent"
      PROVE  agents'[tokens[k].identity.name] # None
  <2>1. tokens[k].identity.name \in Handles
    BY <1>8 DEF TypeOK, TokenRow, Identity
  <2> QED
    BY <1>4, <1>8, <2>1 DEF HandleInv
<1> QED
  BY <1>1, <1>3, <1>5, <1>6, <1>7, <1>8 DEF HandleInv

\* Rotation replaces a key that is there.
LEMMA HandleRekeys ==
  ASSUME TypeOK, PlaceInv, HandleInv, NEW t \in Threads, Rekey(t)
  PROVE  HandleInv'
<1>1. /\ pc[t] = "rekey" /\ pc' = [pc EXCEPT ![t] = "reply"]
      /\ agents' = [agents EXCEPT ![who[t].name] = req[t].key]
      /\ UNCHANGED <<codes, tokens, req, who>>
  BY DEF Rekey, Goto
<1>2. who[t].name \in Handles /\ req[t].key \in PublicKeys /\ agents[who[t].name] # None
  BY <1>1 DEF TypeOK, PlaceInv, Busy, Request, Identity, HandleInv
<1>3. /\ agents'[who[t].name] # None
      /\ \A h \in Handles : h # who[t].name => agents'[h] = agents[h]
  BY <1>1, <1>2, ConstantsAssumption DEF ConstantsAssumption, TypeOK
<1>4. \A h \in Handles : agents'[h] = None <=> agents[h] = None
  BY <1>2, <1>3
<1>5. /\ \A u \in Threads \ {t} : pc'[u] = pc[u]
      /\ pc'[t] = "reply"
  BY <1>1 DEF TypeOK
<1>6. ASSUME NEW u \in Threads, pc'[u] = "enroll"
      PROVE  agents'[req'[u].handle] = None /\ who'[u].name = req'[u].handle
  <2>1. pc[u] = "enroll" /\ req[u].handle \in Handles
    BY <1>5, <1>6 DEF TypeOK, PlaceInv, Busy, Request
  <2> QED
    BY <1>1, <1>4, <2>1 DEF HandleInv
<1>7. ASSUME NEW u \in Busy', who'[u].tier = "agent", pc'[u] # "enroll"
      PROVE  agents'[who'[u].name] # None
  <2>1. u \in Busy /\ who[u].name \in Handles /\ pc[u] # "enroll"
    BY <1>1, <1>5, <1>7 DEF Busy, PlaceInv, Identity
  <2> QED
    BY <1>1, <1>4, <1>7, <2>1 DEF HandleInv
<1>8. ASSUME NEW k \in Tokens, tokens[k] # None, tokens[k].identity.tier = "agent"
      PROVE  agents'[tokens[k].identity.name] # None
  <2>1. tokens[k].identity.name \in Handles
    BY <1>8 DEF TypeOK, TokenRow, Identity
  <2> QED
    BY <1>4, <1>8, <2>1 DEF HandleInv
<1> QED
  BY <1>1, <1>5, <1>6, <1>7, <1>8 DEF HandleInv

LEMMA HandleIssues ==
  ASSUME TypeOK, PlaceInv, HandleInv, NEW t \in Threads, Issue(t)
  PROVE  HandleInv'
<1> DEFINE row == [identity |-> who[t], expires |-> now + TokenTTL[who[t].tier]]
<1>1. PICK token \in Tokens : tokens' = [tokens EXCEPT ![token] = row]
  BY DEF Issue
<1>2. /\ pc[t] = "issue" /\ t \in Busy /\ UNCHANGED <<codes, agents, req, who>>
      /\ \A u \in Threads \ {t} : pc'[u] = pc[u]
      /\ pc'[t] \in {"revoke", "reply"}
  BY DEF Issue, Goto, TypeOK, Busy
<1>3. \A k \in Tokens : tokens'[k] = tokens[k] \/ (tokens'[k] = row /\ row.identity = who[t])
  BY <1>1 DEF TypeOK
<1>4. who[t].tier = "agent" => agents[who[t].name] # None
  BY <1>2 DEF HandleInv
<1> HIDE DEF row
<1>5. \A k \in Tokens : tokens'[k] # None /\ tokens'[k].identity.tier = "agent" =>
        agents'[tokens'[k].identity.name] # None
  BY <1>2, <1>3, <1>4 DEF HandleInv
<1> QED
  BY <1>2, <1>5 DEF HandleInv, Busy

LEMMA HandleOffered ==
  ASSUME TypeOK, HandleInv, NEW c \in Codes, NEW identity, identity.tier # "agent", Offer(c, identity)
  PROVE  HandleInv'
<1> DEFINE row == [identity |-> identity, expires |-> now + CodeTTL, consumed |-> FALSE]
<1>1. codes' = [codes EXCEPT ![c] = row] /\ UNCHANGED <<tokens, agents, pc, req, who>>
  BY DEF Offer
<1>2. \A d \in Codes : codes'[d] # None => codes'[d].identity.tier # "agent"
  BY <1>1 DEF HandleInv, TypeOK
<1> QED
  BY <1>1, <1>2 DEF HandleInv, Busy

LEMMA HandleConsumes ==
  ASSUME TypeOK, PlaceInv, HandleInv, NEW t \in Threads, Consume(t)
  PROVE  HandleInv'
<1> DEFINE c == req[t].code
<1>1. /\ pc[t] = "consume" /\ t \in Busy
      /\ \A u \in Threads \ {t} : pc'[u] = pc[u]
      /\ pc'[t] \in {"attest", "issue"}
      /\ codes' = [codes EXCEPT ![c].consumed = TRUE] /\ UNCHANGED <<tokens, agents, req, who>>
  BY DEF Consume, Goto, TypeOK, Busy
<1>2. c \in Codes /\ codes[c] \in CodeRow
  BY <1>1 DEF TypeOK, PlaceInv, Busy, Request
<1>3. \A d \in Codes : codes'[d] # None => codes[d] # None /\ codes'[d].identity = codes[d].identity
  BY <1>1, <1>2, ConstantsAssumption DEF ConstantsAssumption, TypeOK, CodeRow
<1>4. \A d \in Codes : codes'[d] # None => codes'[d].identity.tier # "agent"
  BY <1>3 DEF HandleInv
<1> QED
  BY <1>1, <1>4 DEF HandleInv, Busy

LEMMA HandlesInductive ==
  ASSUME ~Overlap, TypeOK, PlaceInv, HandleInv, [Next]_vars
  PROVE  HandleInv'
<1>1. ASSUME NEW t \in Threads, NEW person \in People, Callback(t, person)
      PROVE  HandleInv'
  BY <1>1, HandleArrival DEF Callback
<1>2. ASSUME NEW t \in Threads, NEW c \in Codes, Exchange(t, c)
      PROVE  HandleInv'
  BY <1>2, HandleArrival DEF Exchange, HandleInv
<1>3. ASSUME NEW t \in Threads, NEW old \in Tokens, Refresh(t, old)
      PROVE  HandleInv'
  BY <1>3, HandleArrival DEF Refresh, Live, HandleInv
<1>4. ASSUME NEW t \in Threads, NEW token \in Tokens, NEW signer \in PublicKeys,
             NEW key \in PublicKeys, Rotate(t, token, signer, key)
      PROVE  HandleInv'
  BY <1>4, HandleArrival DEF Rotate, HandleInv
<1>5. ASSUME NEW t \in Threads, Attest(t) \/ CheckRotation(t) \/ Reply(t) \/ Revoke(t)
      PROVE  HandleInv'
  <2>1. /\ pc[t] \notin {"idle", "enroll"}
        /\ \A u \in Threads \ {t} : pc'[u] = pc[u] /\ req'[u] = req[u] /\ who'[u] = who[u]
        /\ pc'[t] = "idle" \/ (pc'[t] # "enroll" /\ who'[t] = who[t])
        /\ UNCHANGED <<codes, agents>>
        /\ \A k \in Tokens : tokens'[k] = tokens[k] \/ tokens'[k] = None
    BY <1>5 DEF Attest, CheckRotation, Reply, Revoke, Finish, Goto, tables, TypeOK
  <2> QED
    BY <2>1, HandleKept
<1>6. ASSUME NEW token \in Tokens, Purge(token)
      PROVE  HandleInv'
  <2>1. /\ UNCHANGED <<codes, agents, pc, req, who>>
        /\ \A k \in Tokens : tokens'[k] = tokens[k] \/ tokens'[k] = None
    BY <1>6 DEF Purge, TypeOK
  <2> QED
    BY <2>1, HandleKept
<1>7. ASSUME NEW c \in Codes, (\E person \in People : Render(c, person)) \/ Challenge(c)
      PROVE  HandleInv'
  BY <1>7, HandleOffered DEF Render, Challenge
<1>8. CASE Crash
  BY <1>8, HandleKept DEF Crash, tables
<1>9. CASE Tick \/ UNCHANGED vars
  BY <1>9, HandleKept DEF Tick, vars, tables
<1> QED
  BY <1>1, <1>2, <1>3, <1>4, <1>5, <1>6, <1>7, <1>8, <1>9, HandleConsumes, HandleIssues,
     HandleEnrolls, HandleAdds, HandleRekeys DEF Next, Receive, Work

\* An enrolled handle keeps its key until a rotation for that handle replaces it, through
\* crashes and refused enrollments, while requests about one handle do not overlap.
THEOREM HandleRefused == ASSUME ~Overlap
                         PROVE  Spec => HandleTaken
<1>1. Init => HandleInv
  BY DEF Init, HandleInv, Busy
<1>2. ASSUME TypeOK, PlaceInv, HandleInv, [Next]_vars, NEW h \in Handles,
             agents[h] # None, agents'[h] # agents[h]
      PROVE  \E t \in Threads : pc[t] = "rekey" /\ who[t].name = h
  <2>1. ASSUME NEW t \in Threads, AddAgent(t) PROVE FALSE
    <3>1. agents[req[t].handle] = None
      BY <1>2, <2>1, HandleAdds
    <3> QED
      BY <1>2, <2>1, <3>1 DEF AddAgent, TypeOK
  <2>2. ASSUME NEW t \in Threads, Rekey(t)
        PROVE  pc[t] = "rekey" /\ who[t].name = h
    BY <1>2, <2>2 DEF Rekey, Goto, TypeOK
  <2>3. (\E t \in Threads : AddAgent(t) \/ Rekey(t)) \/ agents' = agents
    BY <1>2 DEF Next, Receive, Work, Callback, Exchange, Refresh, Enroll, Rotate, Consume, Attest,
                Issue, Revoke, CheckRotation, Reply, Render, Challenge, Offer, Purge, Crash, Tick,
                vars, tables
  <2> QED
    BY <1>2, <2>1, <2>2, <2>3
<1>3. TypeOK /\ PlaceInv /\ HandleInv /\ [Next]_vars =>
        [\A h \in Handles : agents[h] # None /\ agents'[h] # agents[h] =>
           \E t \in Threads : pc[t] = "rekey" /\ who[t].name = h]_agents
  BY <1>2
<1> QED
  BY <1>1, <1>3, HandlesInductive, Types, PTL DEF Spec, HandleTaken
=============================================================================
