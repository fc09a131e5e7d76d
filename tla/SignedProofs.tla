----------------------------- MODULE SignedProofs -----------------------------
(***************************************************************************)
(* Proofs about SignedWrites and the store of Credentials, for every value *)
(* of their constants.                                                     *)
(***************************************************************************)
EXTENDS SignedWrites, SequenceTheorems, TLAPS

(***************************************************************************)
(* The inductive invariant.  A row fits if its secret was minted and, for  *)
(* a key, the server knows whose it is.  Rows fit wherever they are: in    *)
(* the store that counts, in every copy of it, in what commands have still *)
(* to write.                                                               *)
(***************************************************************************)
Fits(s, rec) ==
  /\ rec.secret \in 1 .. minted
  /\ s.kind = "orcid" => rec.who \in Orcids
  /\ s.kind = "agent" => rec.who \in Handles
  /\ s.kind = "orcid_key" => orcidKeys[rec.secret] # None /\ orcidKeys[rec.secret].orcid = s.of
  /\ s.kind = "agent_key" => agents[s.of] # None
Fit == {row \in Row : row.rec # None => Fits(row.slot, row.rec)}

\* Contents all of whose rows are in R, and steps that write rows in R only.
Filled(R) == {c \in Contents : \A s \in Slot : [slot |-> s, rec |-> c[s]] \in R}

Gone(s) == [slot |-> s, rec |-> None]
Writes(R) == [op : {"write"}, rows : SUBSET R]
Sweeps(R) ==
  {step \in [op : {"sweep"}, of : Names, kinds : SUBSET {"orcid_key", "agent_key"}] :
     \A s \in AgentKeys \cup OrcidKeys : s.kind \in step.kinds => Gone(s) \in R}
Forgets(R) == {step \in [op : {"forget"}, slot : OrcidKeys, key : Secrets] : Gone(step.slot) \in R}
StepsOf(R) == Writes(R) \cup Sweeps(R) \cup Forgets(R)

\* What a process may write: rows about its command's slots, and nothing but deletions
\* for a logout.
Mine(c, R) == {row \in R : row.slot \in c.slots /\ (c.does = "logout" => row.rec = None)}

StoreHolds(R) ==
  /\ backend \in {"keyring", "file"}
  /\ backend = "keyring" => keyring \in Filled(R)
  /\ backend = "file" => /\ file \in Filled(R) \cup {Torn}
                         /\ tmp \in Filled(R) \cup {Torn, None}
                         /\ data \in [Processes -> Filled(R)]

Shapes ==
  /\ DOMAIN cmd = Processes /\ DOMAIN todo = Processes /\ DOMAIN at = Processes
  /\ DOMAIN doing = Processes /\ DOMAIN data = Processes /\ DOMAIN fd = Processes

Works(p, R) ==
  /\ cmd[p] = None => todo[p] = <<>> /\ doing[p] = None /\ at[p] = "ready"
  /\ cmd[p] # None => /\ cmd[p] \in Command
                      /\ todo[p] \in Seq(StepsOf(Mine(cmd[p], R)))
                      /\ doing[p] \in Mine(cmd[p], R) \cup {None}
                      /\ at[p] # "ready" => doing[p] # None

Keys ==
  /\ minted \in 0 .. MaxSecrets
  /\ tokens \in [Secrets -> Identity \cup {None}]
  /\ orcidKeys \in [Secrets -> BoundKey \cup {None}]
  /\ agents \in [Handles -> Secrets \cup {None}]
  /\ \A k \in Secrets : k > minted => tokens[k] = None /\ orcidKeys[k] = None
  /\ \A h \in Handles : agents[h] # None => agents[h] <= minted

HoldInv == Keys /\ StoreHolds(Fit) /\ Shapes /\ \A p \in Processes : Works(p, Fit)

-----------------------------------------------------------------------------
(***************************************************************************)
(* Requests.  What a request was checked against can only have got worse   *)
(* since: its token may be gone, its key revoked or replaced by one that   *)
(* did not exist yet when the request was made.                            *)
(***************************************************************************)
Made(sig) == sig.key \in 1 .. minted /\ (sig.id \in Secrets => sig.id <= minted)

Sent(q) == q.token \in 1 .. minted /\ (q.sig # None => Made(q.sig))
Known(q) == q.who \in Identity \cup {None} /\ tokens[q.token] \in {q.who, None}

InBody(q) ==
  /\ q.who # None
  /\ q.sig # None /\ Verifies(q.sig) /\ Belongs(q.sig, q.who) => q.good
Passed(q) ==
  tokens[q.token] # None => IF q.sig = None THEN q.who.kind # "agent" ELSE q.good
Admitted(q) == IF q.sig = None THEN q.who.kind = "orcid" ELSE q.good

Checked(q) ==
  /\ Sent(q)
  /\ q.at \in {"body", "passed"} => Known(q)
  /\ q.at = "body" => InBody(q)
  /\ q.at = "passed" => Passed(q)
  /\ q.at = "admitted" => Admitted(q)

ReqInv ==
  /\ req \in [Requests -> Request \cup {None}]
  /\ \A r \in Requests : req[r] # None => Checked(req[r])

-----------------------------------------------------------------------------
(***************************************************************************)
(* Rows, contents and steps over a set of rows.                            *)
(***************************************************************************)
LEMMA SeqGrows ==
  ASSUME NEW S, NEW T, S \subseteq T
  PROVE  Seq(S) \subseteq Seq(T)
OBVIOUS

LEMMA SetsGrow ==
  ASSUME NEW R, NEW T, R \subseteq T
  PROVE  /\ Filled(R) \subseteq Filled(T) /\ StepsOf(R) \subseteq StepsOf(T)
         /\ Seq(StepsOf(R)) \subseteq Seq(StepsOf(T))
<1>1. Filled(R) \subseteq Filled(T)
  BY DEF Filled
<1>2. Writes(R) \subseteq Writes(T)
  BY DEF Writes
<1>3. Sweeps(R) \subseteq Sweeps(T)
  BY DEF Sweeps
<1>4. Forgets(R) \subseteq Forgets(T)
  BY DEF Forgets
<1>5. StepsOf(R) \subseteq StepsOf(T)
  BY <1>2, <1>3, <1>4 DEF StepsOf
<1> QED
  BY <1>1, <1>5, SeqGrows

LEMMA MineGrows ==
  ASSUME NEW R, NEW T, R \subseteq T, NEW c
  PROVE  Mine(c, R) \subseteq Mine(c, T) /\ Mine(c, R) \subseteq R
BY DEF Mine

LEMMA WriteAllIn ==
  ASSUME NEW R, NEW rows \in SUBSET R
  PROVE  WriteAll(rows) \in Seq(StepsOf(R))
<1>1. [op |-> "write", rows |-> rows] \in StepsOf(R)
  BY DEF StepsOf, Writes
<1> QED
  BY <1>1 DEF WriteAll

LEMMA NextSteps ==
  ASSUME NEW S, NEW t \in Seq(S), t # <<>>, NEW u \in Seq(S)
  PROVE  Head(t) \in S /\ u \o Tail(t) \in Seq(S)
<1>1. Head(t) \in S /\ Tail(t) \in Seq(S)
  BY HeadTailProperties
<1> QED
  BY <1>1

\* What a step's kind says of it.
LEMMA StepKinds ==
  ASSUME NEW R, NEW step \in StepsOf(R)
  PROVE  /\ step.op = "write" => step.rows \subseteq R
         /\ step.op = "sweep" =>
              \A s \in AgentKeys \cup OrcidKeys : s.kind \in step.kinds => Gone(s) \in R
         /\ step.op = "forget" => Gone(step.slot) \in R
BY DEF StepsOf, Writes, Sweeps, Forgets

LEMMA EntryIn ==
  ASSUME NEW R \in SUBSET Row, NEW c \in Filled(R), NEW row \in R
  PROVE  [c EXCEPT ![row.slot] = row.rec] \in Filled(R)
<1>1. row.slot \in Slot /\ row.rec \in Record \cup {None} /\ row = [slot |-> row.slot, rec |-> row.rec]
  BY DEF Row
<1>2. c \in [Slot -> Record \cup {None}] /\ \A s \in Slot : [slot |-> s, rec |-> c[s]] \in R
  BY DEF Filled, Contents
<1> DEFINE d == [c EXCEPT ![row.slot] = row.rec]
<1>3. d \in Contents
  BY <1>1, <1>2 DEF Contents
<1>4. \A s \in Slot : d[s] = IF s = row.slot THEN row.rec ELSE c[s]
  BY <1>1, <1>2
<1>5. ASSUME NEW s \in Slot PROVE [slot |-> s, rec |-> d[s]] \in R
  BY <1>1, <1>2, <1>4
<1> HIDE DEF d
<1>6. d \in Filled(R)
  BY <1>3, <1>5 DEF Filled
<1> QED
  BY <1>6 DEF d

-----------------------------------------------------------------------------
(***************************************************************************)
(* What a command's steps do to the store and to what it has still to do.  *)
(***************************************************************************)
LEMMA ShapesKept == Shapes /\ [Next]_vars => Shapes'
<1> SUFFICES ASSUME Shapes, [Next]_vars PROVE Shapes'
  OBVIOUS
<1>1. ASSUME UNCHANGED local PROVE Shapes'
  BY <1>1 DEF Shapes, local
<1>2. ASSUME NEW p, NEW does, NEW slots, NEW of, NEW steps, Begin(p, does, slots, of, steps)
      PROVE  Shapes'
  BY <1>2 DEF Shapes, Begin
<1>3. ASSUME NEW p \in Processes, Start(p) PROVE Shapes'
  BY <1>2, <1>3 DEF Start, LoginOrcid, LoginAgent, LoginAnonymous, BindKey, RevokeKey, Logout
<1>4. ASSUME NEW p \in Processes, Run(p) PROVE Shapes'
  BY <1>4 DEF Shapes, Run, Put, Load, Open, Write, Replace, Quit, Sweep, Forget, Return
<1>5. ASSUME NEW p \in Processes, Crash(p) PROVE Shapes'
  BY <1>5 DEF Shapes, Crash, Quit
<1> QED
  BY <1>1, <1>3, <1>4, <1>5
  DEF Next, Annotate, Submit, Call, Send, Serve, Receive, Verify, Reject, Admit, Accept, Expire, Rotate, vars

\* What a row that is about to be written is: it fits, and it is the command's own.
LEMMA HeadWrites ==
  ASSUME NEW p \in Processes, NEW R \in SUBSET Row, Works(p, R),
         at[p] = "ready", todo[p] # <<>>
  PROVE  /\ cmd[p] # None /\ cmd[p] \in Command
         /\ Head(todo[p]) \in StepsOf(Mine(cmd[p], R))
         /\ Tail(todo[p]) \in Seq(StepsOf(Mine(cmd[p], R)))
BY HeadTailProperties DEF Works

LEMMA StoreStep ==
  ASSUME NEW p \in Processes, NEW R \in SUBSET Row, Shapes, StoreHolds(R), Works(p, R),
         \A s \in Slot : Gone(s) \in R, Run(p) \/ Crash(p)
  PROVE  StoreHolds(R)'
<1>1. backend' = backend
  BY DEF Run, Put, Load, Open, Write, Replace, Sweep, Forget, Return, Crash
<1>2. ASSUME UNCHANGED <<keyring, file, tmp, data>> PROVE StoreHolds(R)'
  BY <1>1, <1>2 DEF StoreHolds
<1>3. Empty \in Filled(R)
  BY DEF Empty, Filled, Contents, Gone
<1>4. backend = "file" => Loaded \in Filled(R)
  BY <1>3 DEF StoreHolds, Loaded
<1>5. CASE Put(p)
  <2>1. PICK r \in Head(todo[p]).rows :
          keyring' = IF backend = "keyring" THEN [keyring EXCEPT ![r.slot] = r.rec] ELSE keyring
    BY <1>5 DEF Put
  <2>2. r \in R
    <3>1. Head(todo[p]) \in StepsOf(Mine(cmd[p], R)) /\ Head(todo[p]).op = "write"
      BY <1>5, HeadWrites DEF Put
    <3>2. r \in Mine(cmd[p], R)
      BY <2>1, <3>1, StepKinds
    <3> QED
      BY <3>2 DEF Mine
  <2>3. backend = "keyring" => keyring' \in Filled(R)
    BY <2>1, <2>2, EntryIn DEF StoreHolds
  <2>4. UNCHANGED <<backend, file, tmp, data>>
    BY <1>5 DEF Put
  <2> QED
    BY <2>3, <2>4 DEF StoreHolds
<1>6. CASE Load(p)
  <2>1. doing[p] \in R
    BY <1>6 DEF Load, Works, Mine
  <2>2. backend = "file" => data'[p] \in Filled(R)
    <3>1. backend = "file" => data'[p] = [Loaded EXCEPT ![doing[p].slot] = doing[p].rec]
      BY <1>6 DEF Load, Shapes, Entry
    <3> QED
      BY <1>4, <2>1, <3>1, EntryIn
  <2>3. backend = "file" => data' \in [Processes -> Filled(R)]
    BY <1>6, <2>2 DEF Load, StoreHolds
  <2> QED
    BY <1>6, <2>3 DEF Load, StoreHolds, store
<1>7. CASE Open(p)
  BY <1>7 DEF Open, StoreHolds
<1>8. CASE Write(p)
  <2>1. backend = "file" => /\ data[p] \in Filled(R)
                            /\ tmp' \in {tmp, data[p], Torn} /\ file' \in {file, data[p], Torn}
    BY <1>8 DEF Write, Over, StoreHolds
  <2> QED
    BY <1>8, <2>1 DEF Write, StoreHolds
<1>9. ASSUME Quit(p), UNCHANGED <<keyring, file>>, tmp' \in {tmp, None} PROVE StoreHolds(R)'
  BY <1>1, <1>3, <1>9 DEF Quit, StoreHolds
<1>10. CASE Replace(p)
  <2>1. CASE tmp = None
    BY <1>9, <1>10, <2>1 DEF Replace, store
  <2>2. CASE tmp # None
    BY <1>1, <1>3, <1>10, <2>2 DEF Replace, StoreHolds
  <2> QED
    BY <2>1, <2>2
<1>11. CASE Sweep(p) \/ Forget(p)
  BY <1>2, <1>11 DEF Sweep, Forget, store
<1>12. CASE Return(p) \/ Crash(p)
  BY <1>9, <1>12 DEF Return, Crash, store
<1> QED
  BY <1>5, <1>6, <1>7, <1>8, <1>10, <1>11, <1>12 DEF Run

LEMMA WorkStep ==
  ASSUME NEW p \in Processes, NEW R \in SUBSET Row, Shapes, Works(p, R),
         Run(p) \/ Crash(p)
  PROVE  Works(p, R)'
<1> DEFINE M == Mine(cmd[p], R)
<1>1. ASSUME Quit(p) PROVE Works(p, R)'
  BY <1>1 DEF Quit, Works, Shapes
<1>2. ASSUME UNCHANGED <<cmd, todo>>, cmd[p] # None, doing'[p] \in {doing[p], None},
             at'[p] # "ready" => doing'[p] # None
      PROVE  Works(p, R)'
  <2>1. cmd'[p] = cmd[p] /\ todo'[p] = todo[p]
    BY <1>2
  <2> QED
    BY <1>2, <2>1 DEF Works
<1>3. ASSUME NEW rows \in SUBSET M, at[p] = "ready", todo[p] # <<>>, cmd' = cmd,
             todo' = [todo EXCEPT ![p] = WriteAll(rows) \o Tail(@)],
             doing'[p] \in M \cup {None}, at'[p] # "ready" => doing'[p] # None
      PROVE  Works(p, R)'
  <2>1. cmd[p] # None /\ cmd[p] \in Command /\ todo[p] \in Seq(StepsOf(M))
    BY <1>3, HeadWrites DEF Works
  <2>2. WriteAll(rows) \in Seq(StepsOf(M))
    BY WriteAllIn
  <2> HIDE DEF M
  <2>3. WriteAll(rows) \o Tail(todo[p]) \in Seq(StepsOf(M))
    BY <1>3, <2>1, <2>2, NextSteps
  <2>4. todo'[p] \in Seq(StepsOf(M)) /\ cmd'[p] = cmd[p]
    BY <1>3, <2>3 DEF Shapes
  <2> QED
    BY <1>3, <2>1, <2>4 DEF Works, M
<1>4. CASE Put(p)
  <2>1. PICK r \in Head(todo[p]).rows :
          /\ todo' = [todo EXCEPT ![p] = WriteAll(Head(@).rows \ {r}) \o Tail(@)]
          /\ IF Indexed(r.slot)
               THEN at' = [at EXCEPT ![p] = "load"] /\ doing' = [doing EXCEPT ![p] = r]
               ELSE UNCHANGED <<at, doing>>
    BY <1>4 DEF Put
  <2>2. Head(todo[p]).rows \subseteq M
    BY <1>4, HeadWrites, StepKinds DEF Put
  <2>3. Head(todo[p]).rows \ {r} \in SUBSET M /\ r \in M
    BY <2>1, <2>2
  <2>4. cmd[p] # None /\ doing[p] \in M \cup {None}
    BY <1>4, HeadWrites DEF Put, Works
  <2>5. r # None
    BY <2>3, ConstantsAssumption DEF Mine
  <2>6. doing'[p] \in M \cup {None} /\ (at'[p] # "ready" => doing'[p] # None)
    <3>1. CASE Indexed(r.slot)
      BY <2>1, <2>3, <2>5, <3>1 DEF Shapes
    <3>2. CASE ~Indexed(r.slot)
      BY <1>4, <2>1, <2>4, <3>2 DEF Put
    <3> QED
      BY <3>1, <3>2
  <2>7. todo' = [todo EXCEPT ![p] = WriteAll(Head(todo[p]).rows \ {r}) \o Tail(@)]
    BY <2>1
  <2> HIDE DEF M
  <2> QED
    BY <1>3, <1>4, <2>3, <2>6, <2>7 DEF Put
<1>5. CASE Load(p) \/ Open(p) \/ Write(p)
  <2>1. cmd[p] # None /\ doing[p] # None
    BY <1>5 DEF Load, Open, Write, Works
  <2> QED
    BY <1>2, <1>5, <2>1 DEF Load, Open, Write
<1>6. CASE Replace(p)
  <2>1. cmd[p] # None
    BY <1>6 DEF Replace, Works
  <2>2. CASE tmp = None
    BY <1>1, <1>6, <2>2 DEF Replace
  <2>3. CASE tmp # None
    BY <1>2, <1>6, <2>1, <2>3 DEF Replace, Shapes
  <2> QED
    BY <2>2, <2>3
<1>7. CASE Sweep(p)
  <2> DEFINE sweep == Head(todo[p])
             named == {s \in AgentKeys \cup OrcidKeys : s.kind \in sweep.kinds /\ Loaded[s] # None}
             known == {s \in OrcidKeys : "orcid_key" \in sweep.kinds /\ s.of = sweep.of}
  <2>1. todo' = [todo EXCEPT ![p] = WriteAll(Forgotten(named \cup known)) \o Tail(@)]
    BY <1>7 DEF Sweep
  <2>2. \A s \in OrcidKeys : s.kind = "orcid_key"
    BY DEF OrcidKeys, OrcidKey
  <2>3. \A s \in AgentKeys \cup OrcidKeys : s.kind \in sweep.kinds => Gone(s) \in M
    BY <1>7, HeadWrites, StepKinds DEF Sweep
  <2>4. Forgotten(named \cup known) \in SUBSET M
    BY <2>2, <2>3 DEF Forgotten, Gone
  <2>5. doing'[p] \in M \cup {None} /\ (at'[p] # "ready" => doing'[p] # None)
    BY <1>7, HeadWrites DEF Sweep, Works
  <2> HIDE DEF M, named, known
  <2> QED
    BY <1>3, <1>7, <2>1, <2>4, <2>5 DEF Sweep
<1>8. CASE Forget(p)
  <2> DEFINE s == Head(todo[p]).slot
             mine == Held(s) # None /\ Held(s).secret = Head(todo[p]).key
             rows == IF mine THEN Forgotten({s}) ELSE {}
  <2>1. todo' = [todo EXCEPT ![p] = WriteAll(rows) \o Tail(@)]
    BY <1>8 DEF Forget
  <2>2. Gone(s) \in M
    BY <1>8, HeadWrites, StepKinds DEF Forget
  <2>3. rows \in SUBSET M
    BY <2>2 DEF Forgotten, Gone
  <2>4. doing'[p] \in M \cup {None} /\ (at'[p] # "ready" => doing'[p] # None)
    BY <1>8, HeadWrites DEF Forget, Works
  <2> HIDE DEF M, rows
  <2> QED
    BY <1>3, <1>8, <2>1, <2>3, <2>4 DEF Forget
<1>9. CASE Return(p) \/ Crash(p)
  BY <1>1, <1>9 DEF Return, Crash
<1> QED
  BY <1>4, <1>5, <1>6, <1>7, <1>8, <1>9 DEF Run

LEMMA OthersWork ==
  ASSUME NEW p \in Processes, NEW R, Shapes, Run(p) \/ Crash(p), NEW q \in Processes, q # p, Works(q, R)
  PROVE  Works(q, R)'
<1>1. cmd'[q] = cmd[q] /\ todo'[q] = todo[q] /\ at'[q] = at[q] /\ doing'[q] = doing[q]
  <2>1. CASE Run(p)
    BY <2>1 DEF Shapes, Run, Put, Load, Open, Write, Replace, Quit, Sweep, Forget, Return
  <2>2. CASE Crash(p)
    BY <2>2 DEF Shapes, Crash, Quit
  <2> QED
    BY <2>1, <2>2
<1> QED
  BY <1>1 DEF Works

\* A set of rows that grows.
LEMMA HoldMore ==
  ASSUME NEW R, NEW T, R \subseteq T
  PROVE  /\ StoreHolds(R) => StoreHolds(T)
         /\ \A p \in Processes : Works(p, R) => Works(p, T)
<1>1. Filled(R) \subseteq Filled(T)
  BY SetsGrow
<1>2. StoreHolds(R) => StoreHolds(T)
  BY <1>1 DEF StoreHolds
<1>3. ASSUME NEW p \in Processes, Works(p, R) PROVE Works(p, T)
  <2>1. Mine(cmd[p], R) \subseteq Mine(cmd[p], T)
    BY MineGrows
  <2>2. Seq(StepsOf(Mine(cmd[p], R))) \subseteq Seq(StepsOf(Mine(cmd[p], T)))
    BY <2>1, SetsGrow
  <2> QED
    BY <1>3, <2>1, <2>2 DEF Works
<1> QED
  BY <1>2, <1>3

\* A command begins: what it is to do are steps over its own rows.
LEMMA BeginWorks ==
  ASSUME NEW p \in Processes, NEW R, Shapes, StoreHolds(R), \A q \in Processes : Works(q, R),
         cmd[p] = None, NEW does \in {"login", "logout", "bind", "revoke"},
         NEW slots \in SUBSET Slot, NEW of \in Names, NEW steps, Begin(p, does, slots, of, steps),
         steps \in Seq(StepsOf(Mine([does |-> does, slots |-> slots, of |-> of], R)))
  PROVE  StoreHolds(R)' /\ \A q \in Processes : Works(q, R)'
<1> DEFINE c == [does |-> does, slots |-> slots, of |-> of]
<1>1. StoreHolds(R)'
  BY DEF Begin, StoreHolds, store
<1>2. c \in Command /\ c # None
  BY ConstantsAssumption DEF Command
<1>3. cmd'[p] = c /\ todo'[p] = steps /\ at'[p] = at[p] /\ doing'[p] = doing[p]
  BY DEF Begin, Shapes
<1>4. at[p] = "ready" /\ doing[p] = None
  BY DEF Works
<1>5. Works(p, R)'
  <2>1. steps \in Seq(StepsOf(Mine(c, R)))
    OBVIOUS
  <2> HIDE DEF c
  <2> QED
    BY <1>2, <1>3, <1>4, <2>1 DEF Works
<1>6. ASSUME NEW q \in Processes, q # p PROVE Works(q, R)'
  <2>1. cmd'[q] = cmd[q] /\ todo'[q] = todo[q] /\ at'[q] = at[q] /\ doing'[q] = doing[q]
    BY <1>6 DEF Begin, Shapes
  <2> QED
    BY <2>1 DEF Works
<1> QED
  BY <1>1, <1>5, <1>6

-----------------------------------------------------------------------------
(***************************************************************************)
(* The server's side only grows: secrets are minted in order, a token is   *)
(* never anybody else's, a key never another ORCID iD's and never good     *)
(* again, and the key a handle comes to have is a new one.                 *)
(***************************************************************************)
Grows ==
  /\ minted <= minted' /\ minted' \in Nat
  /\ \A k \in Secrets : k <= minted => tokens'[k] \in {tokens[k], None}
  /\ \A k \in Secrets : k <= minted => orcidKeys'[k] \in
       {orcidKeys[k]} \cup (IF orcidKeys[k] = None THEN {} ELSE {[orcidKeys[k] EXCEPT !.revoked = TRUE]})
  /\ \A h \in Handles : agents'[h] = agents[h] \/ (agents'[h] # None /\ agents'[h] > minted)

LEMMA NamesApart ==
  /\ MaxSecrets \in Nat /\ Secrets \subseteq Nat /\ None \notin Nat /\ None \notin Secrets
  /\ \A k \in Secrets : k # None
  /\ \A x \in Identity : x # None
  /\ \A x \in BoundKey : x # None
  /\ \A h \in Handles : h \notin Secrets /\ h # None /\ h \notin Orcids
  /\ \A o \in Orcids : o # None
BY ConstantsAssumption, ServerAssumption DEF Secrets

LEMMA MintGrows ==
  ASSUME Keys, NEW n \in Nat, Mint(n)
  PROVE  minted \in Nat /\ minted' \in 0 .. MaxSecrets /\ minted' = minted + n
BY NamesApart DEF Keys, Mint

LEMMA ServerGrows ==
  ASSUME Keys, LoggedIn => Self \in Orcids, [Next]_vars
  PROVE  Keys' /\ Grows
<1> USE NamesApart
<1>1. minted \in Nat /\ minted \in 0 .. MaxSecrets /\ MaxSecrets \in Nat
  BY DEF Keys
<1>2. CASE UNCHANGED server
  BY <1>1, <1>2 DEF Keys, Grows, server
<1>3. ASSUME NEW kind \in Identity, Mint(1), tokens' = [tokens EXCEPT ![minted'] = kind],
             UNCHANGED <<orcidKeys, agents>>
      PROVE  Keys' /\ Grows
  BY <1>1, <1>3, MintGrows DEF Keys, Grows, Secrets
<1>4. ASSUME NEW p \in Processes, NEW o \in Orcids, LoginOrcid(p, o) PROVE Keys' /\ Grows
  BY <1>3, <1>4 DEF LoginOrcid, Identity
<1>5. ASSUME NEW p \in Processes, LoginAnonymous(p) PROVE Keys' /\ Grows
  BY <1>3, <1>5 DEF LoginAnonymous, Identity
<1>6. ASSUME NEW p \in Processes, NEW h \in Handles, LoginAgent(p, h) PROVE Keys' /\ Grows
  <2>1. minted' = minted + 2 /\ minted' \in Secrets /\ minted + 1 \in Secrets
    BY <1>1, <1>6, MintGrows DEF LoginAgent, Secrets
  <2>2. [kind |-> "agent", id |-> h] \in Identity
    BY DEF Identity
  <2>3. tokens' = [tokens EXCEPT ![minted + 1] = [kind |-> "agent", id |-> h]]
        /\ agents' = [agents EXCEPT ![h] = minted'] /\ orcidKeys' = orcidKeys
    BY <1>6 DEF LoginAgent
  <2>4. tokens' \in [Secrets -> Identity \cup {None}] /\ agents' \in [Handles -> Secrets \cup {None}]
    BY <2>1, <2>2, <2>3 DEF Keys
  <2>5. \A k \in Secrets : k # minted + 1 => tokens'[k] = tokens[k]
    BY <2>3 DEF Keys
  <2>6. \A g \in Handles : agents'[g] = IF g = h THEN minted + 2 ELSE agents[g]
    BY <2>1, <2>3 DEF Keys
  <2>7. \A g \in Handles : agents[g] # None => agents[g] \in Nat
    BY DEF Keys
  <2>8. Keys'
    BY <1>1, <2>1, <2>3, <2>4, <2>5, <2>6, <2>7 DEF Keys, Secrets
  <2>9. Grows
    BY <1>1, <2>1, <2>3, <2>5, <2>6 DEF Grows, Secrets
  <2> QED
    BY <2>8, <2>9
<1>7. ASSUME NEW p \in Processes, BindKey(p) PROVE Keys' /\ Grows
  <2>1. minted' = minted + 1 /\ minted' \in Secrets
    BY <1>1, <1>7, MintGrows DEF BindKey, Secrets
  <2>2. [orcid |-> Self, revoked |-> FALSE] \in BoundKey
    BY <1>7 DEF BindKey, BoundKey
  <2>3. orcidKeys' = [orcidKeys EXCEPT ![minted'] = [orcid |-> Self, revoked |-> FALSE]]
        /\ tokens' = tokens /\ agents' = agents
    BY <1>7 DEF BindKey
  <2> HIDE DEF Self
  <2>4. orcidKeys' \in [Secrets -> BoundKey \cup {None}]
    BY <2>1, <2>2, <2>3 DEF Keys
  <2>5. \A k \in Secrets : k # minted + 1 => orcidKeys'[k] = orcidKeys[k]
    BY <2>1, <2>3 DEF Keys
  <2>6. \A g \in Handles : agents[g] # None => agents[g] \in Nat
    BY DEF Keys
  <2>7. Keys'
    BY <1>1, <2>1, <2>3, <2>4, <2>5, <2>6 DEF Keys, Secrets
  <2>8. Grows
    BY <1>1, <2>1, <2>3, <2>5 DEF Grows, Secrets
  <2> QED
    BY <2>7, <2>8
<1>8. ASSUME NEW p \in Processes, NEW k \in Secrets, RevokeKey(p, k) PROVE Keys' /\ Grows
  <2>1. orcidKeys[k] # None /\ orcidKeys' = [orcidKeys EXCEPT ![k].revoked = TRUE]
        /\ minted' = minted /\ tokens' = tokens /\ agents' = agents
    BY <1>8 DEF RevokeKey
  <2>2. orcidKeys[k] \in BoundKey
    BY <2>1 DEF Keys
  <2>3. [orcidKeys[k] EXCEPT !.revoked = TRUE] \in BoundKey
    BY <2>2 DEF BoundKey
  <2>4. orcidKeys'[k] = [orcidKeys[k] EXCEPT !.revoked = TRUE]
        /\ \A j \in Secrets : j # k => orcidKeys'[j] = orcidKeys[j]
    BY <2>1 DEF Keys
  <2>5. orcidKeys' \in [Secrets -> BoundKey \cup {None}]
    BY <2>1, <2>3 DEF Keys
  <2>6. Keys'
    BY <2>1, <2>4, <2>5 DEF Keys
  <2>7. Grows
    BY <1>1, <2>1, <2>4 DEF Grows
  <2> QED
    BY <2>6, <2>7
<1>9. ASSUME NEW token \in Secrets, Expire(token) PROVE Keys' /\ Grows
  BY <1>1, <1>9 DEF Expire, Keys, Grows
<1>10. ASSUME NEW h \in Handles, Rotate(h) PROVE Keys' /\ Grows
  <2>1. minted' = minted + 1 /\ minted' \in Secrets
    BY <1>1, <1>10, MintGrows DEF Rotate, Secrets
  <2>2. agents' = [agents EXCEPT ![h] = minted'] /\ tokens' = tokens /\ orcidKeys' = orcidKeys
    BY <1>10 DEF Rotate
  <2>3. \A g \in Handles : agents'[g] = IF g = h THEN minted + 1 ELSE agents[g]
    BY <2>1, <2>2 DEF Keys
  <2>4. \A g \in Handles : agents[g] # None => agents[g] \in Nat
    BY DEF Keys
  <2>5. agents' \in [Handles -> Secrets \cup {None}]
    BY <2>1, <2>2 DEF Keys
  <2>6. Keys'
    BY <1>1, <2>1, <2>2, <2>3, <2>4, <2>5 DEF Keys, Secrets
  <2>7. Grows
    BY <1>1, <2>1, <2>2, <2>3 DEF Grows
  <2> QED
    BY <2>6, <2>7
<1>11. ASSUME NEW p \in Processes, Start(p) PROVE Keys' /\ Grows
  BY <1>2, <1>4, <1>5, <1>6, <1>7, <1>8, <1>11 DEF Start, Logout
<1> QED
  BY <1>2, <1>9, <1>10, <1>11
  DEF Next, Annotate, Submit, Call, Send, Serve, Receive, Verify, Reject, Admit, Accept, vars, server

-----------------------------------------------------------------------------
(***************************************************************************)
(* Every row fits, for good.                                               *)
(***************************************************************************)
LEMMA FitGrows ==
  ASSUME Keys, Keys', Grows
  PROVE  Fit \subseteq Fit'
<1> USE NamesApart
<1>1. minted \in Nat /\ minted' \in Nat /\ minted <= minted' /\ minted <= MaxSecrets
  BY DEF Keys, Grows
<1>2. ASSUME NEW k \in 1 .. minted, orcidKeys[k] # None
      PROVE  orcidKeys'[k] # None /\ orcidKeys'[k].orcid = orcidKeys[k].orcid
  <2>1. k \in Secrets /\ k <= minted /\ orcidKeys[k] \in BoundKey
    BY <1>1, <1>2 DEF Secrets, Keys
  <2>2. orcidKeys'[k] = orcidKeys[k] \/ orcidKeys'[k] = [orcidKeys[k] EXCEPT !.revoked = TRUE]
    BY <1>2, <2>1 DEF Grows
  <2>3. [orcidKeys[k] EXCEPT !.revoked = TRUE] \in BoundKey
        /\ [orcidKeys[k] EXCEPT !.revoked = TRUE].orcid = orcidKeys[k].orcid
    BY <2>1 DEF BoundKey
  <2> QED
    BY <1>2, <2>2, <2>3
<1>3. \A h \in Handles : agents[h] # None => agents'[h] # None
  BY DEF Grows
<1>4. ASSUME NEW row \in Row, row.rec # None, Fits(row.slot, row.rec)
      PROVE  Fits(row.slot, row.rec)'
  <2>1. row.slot \in Slot
    BY DEF Row
  <2>2. row.rec.secret \in 1 .. minted /\ row.rec.secret \in 1 .. minted'
    BY <1>1, <1>4 DEF Fits
  <2>3. row.slot.kind = "agent_key" => row.slot.of \in Handles
    BY <2>1 DEF Slot, Bearers, Bearer, Tiers, AgentKeys, AgentKey, OrcidKeys, OrcidKey
  <2> QED
    BY <1>2, <1>3, <1>4, <2>2, <2>3 DEF Fits
<1> QED
  BY <1>4 DEF Fit

LEMMA HeldFits ==
  ASSUME StoreHolds(Fit), NEW s \in Slot, Held(s) # None
  PROVE  Held(s) \in Record /\ Fits(s, Held(s))
<1>1. [slot |-> s, rec |-> Held(s)] \in Fit
  <2>1. CASE backend = "keyring"
    BY <2>1 DEF StoreHolds, Filled, Held
  <2>2. CASE backend = "file"
    <3>1. Loaded[s] # None
      BY <2>2 DEF Held
    <3>2. file # Torn
      BY <3>1 DEF Loaded, Empty
    <3> QED
      BY <2>2, <3>2 DEF StoreHolds, Filled, Held, Loaded
  <2> QED
    BY <2>1, <2>2 DEF StoreHolds
<1> QED
  BY <1>1 DEF Fit, Row

LEMMA SelfIsOrcid ==
  ASSUME StoreHolds(Fit), Held(Bearer("orcid")) # None
  PROVE  Self \in Orcids
<1>1. Bearer("orcid") \in Slot /\ Bearer("orcid").kind = "orcid"
  BY DEF Slot, Bearers, Bearer, Tiers
<1> QED
  BY <1>1, HeldFits DEF Fits, Self

\* One credential to save, as a list of steps.
LEMMA SaveIn ==
  ASSUME NEW R, NEW slot, NEW who, NEW secret,
         [slot |-> slot, rec |-> [who |-> who, secret |-> secret]] \in R
  PROVE  Save(slot, who, secret) \in StepsOf(R)
BY DEF Save, StepsOf, Writes

LEMMA FitRow ==
  ASSUME NEW slot \in Slot, NEW who \in Names, NEW secret \in Secrets,
         Fits(slot, [who |-> who, secret |-> secret])'
  PROVE  [slot |-> slot, rec |-> [who |-> who, secret |-> secret]] \in Fit'
BY DEF Fit, Row, Record

LEMMA GoneFits ==
  ASSUME NEW s \in Slot
  PROVE  Gone(s) \in Fit
BY DEF Gone, Fit, Row

\* A command that begins saves rows that fit once the server has answered it.
LEMMA StartHolds ==
  ASSUME HoldInv, Keys', NEW p \in Processes, Start(p), NEW G, G = Fit', Fit \subseteq G
  PROVE  StoreHolds(G)' /\ \A q \in Processes : Works(q, G)'
<1>1. StoreHolds(G) /\ \A q \in Processes : Works(q, G)
  BY HoldMore DEF HoldInv
<1>2. Shapes /\ cmd[p] = None /\ minted \in Nat
  BY DEF HoldInv, Start, Keys
<1>3. \A s \in Slot : Gone(s) \in G
  BY GoneFits
<1>4. /\ Bearers \subseteq Slot /\ AgentKeys \subseteq Slot /\ OrcidKeys \subseteq Slot
      /\ \A kind \in Tiers : Bearer(kind) \in Slot
      /\ \A h \in Handles : AgentKey(h) \in Slot
      /\ \A o \in Orcids : OrcidKey(o) \in OrcidKeys /\ OrcidKey(o) \in Slot
  BY DEF Slot, Bearers, AgentKeys, OrcidKeys
<1>5. Orcids \subseteq Names /\ Handles \subseteq Names /\ None \in Names
  BY DEF Names
<1>6. Tiers = {"orcid", "agent", "anonymous"}
  BY DEF Tiers
<1>7. ASSUME NEW does \in {"login", "bind"}, NEW slot \in Slot, NEW who \in Names, NEW secret \in Secrets,
             Fits(slot, [who |-> who, secret |-> secret])',
             Begin(p, does, {slot}, None, <<Save(slot, who, secret)>>)
      PROVE  StoreHolds(G)' /\ \A q \in Processes : Works(q, G)'
  <2> DEFINE c == [does |-> does, slots |-> {slot}, of |-> None]
             row == [slot |-> slot, rec |-> [who |-> who, secret |-> secret]]
  <2>1. row \in G
    BY <1>7, FitRow
  <2>2. row \in Mine(c, G)
    BY <2>1 DEF Mine
  <2>3. Save(slot, who, secret) \in StepsOf(Mine(c, G))
    BY <2>2, SaveIn
  <2>4. <<Save(slot, who, secret)>> \in Seq(StepsOf(Mine(c, G)))
    BY <2>3
  <2> QED
    BY <1>1, <1>2, <1>5, <1>7, <2>4, BeginWorks
<1>8. ASSUME NEW o \in Orcids, LoginOrcid(p, o) PROVE StoreHolds(G)' /\ \A q \in Processes : Works(q, G)'
  <2>1. PICK new \in Secrets : new = minted' /\ new \in 1 .. minted'
    BY <1>2, <1>8, MintGrows DEF LoginOrcid, Secrets, HoldInv
  <2>2. Fits(Bearer("orcid"), [who |-> o, secret |-> new])'
    BY <2>1 DEF Fits, Bearer
  <2>3. Begin(p, "login", {Bearer("orcid")}, None, <<Save(Bearer("orcid"), o, new)>>)
    BY <1>8, <2>1 DEF LoginOrcid
  <2> QED
    BY <1>4, <1>5, <1>6, <1>7, <2>2, <2>3
<1>9. ASSUME LoginAnonymous(p) PROVE StoreHolds(G)' /\ \A q \in Processes : Works(q, G)'
  <2>1. PICK new \in Secrets : new = minted' /\ new \in 1 .. minted'
    BY <1>2, <1>9, MintGrows DEF LoginAnonymous, Secrets, HoldInv
  <2>2. Fits(Bearer("anonymous"), [who |-> None, secret |-> new])'
    BY <2>1 DEF Fits, Bearer
  <2>3. Begin(p, "login", {Bearer("anonymous")}, None, <<Save(Bearer("anonymous"), None, new)>>)
    BY <1>9, <2>1 DEF LoginAnonymous
  <2> QED
    BY <1>4, <1>5, <1>6, <1>7, <2>2, <2>3
<1>10. ASSUME NEW h \in Handles, LoginAgent(p, h) PROVE StoreHolds(G)' /\ \A q \in Processes : Works(q, G)'
  <2> DEFINE slots == {Bearer("agent"), AgentKey(h)}
             c == [does |-> "login", slots |-> slots, of |-> None]
  <2>1. PICK key \in Secrets, token \in Secrets :
          key = minted' /\ token = minted + 1 /\ key \in 1 .. minted' /\ token \in 1 .. minted'
    <3>1. minted' = minted + 2 /\ minted' \in 0 .. MaxSecrets
      BY <1>10, MintGrows DEF LoginAgent, HoldInv
    <3> QED
      BY <1>2, <3>1, NamesApart DEF Secrets
  <2> DEFINE steps == <<Save(Bearer("agent"), h, token), Save(AgentKey(h), h, key)>>
  <2>2. agents'[h] # None
    BY <1>10, <2>1, NamesApart DEF LoginAgent, HoldInv, Keys
  <2>3. Fits(Bearer("agent"), [who |-> h, secret |-> token])'
    BY <2>1 DEF Fits, Bearer
  <2>4. Fits(AgentKey(h), [who |-> h, secret |-> key])'
    BY <2>1, <2>2 DEF Fits, AgentKey
  <2>5. [slot |-> Bearer("agent"), rec |-> [who |-> h, secret |-> token]] \in G
    BY <1>4, <1>5, <1>6, <2>1, <2>3, FitRow
  <2>6. [slot |-> AgentKey(h), rec |-> [who |-> h, secret |-> key]] \in G
    BY <1>4, <1>5, <2>1, <2>4, FitRow
  <2>7. Save(Bearer("agent"), h, token) \in StepsOf(Mine(c, G))
    BY <2>5, SaveIn DEF Mine
  <2>8. Save(AgentKey(h), h, key) \in StepsOf(Mine(c, G))
    BY <2>6, SaveIn DEF Mine
  <2>9. steps \in Seq(StepsOf(Mine(c, G)))
    BY <2>7, <2>8
  <2>10. slots \in SUBSET Slot
    BY <1>4, <1>6
  <2>11. Begin(p, "login", slots, None, steps)
    BY <1>10, <2>1 DEF LoginAgent
  <2> HIDE DEF slots, steps
  <2> QED
    BY <1>1, <1>2, <1>5, <2>9, <2>10, <2>11, BeginWorks
<1>11. ASSUME BindKey(p) PROVE StoreHolds(G)' /\ \A q \in Processes : Works(q, G)'
  <2>1. PICK new \in Secrets : new = minted' /\ new \in 1 .. minted'
    BY <1>2, <1>11, MintGrows DEF BindKey, Secrets, HoldInv
  <2>2. PICK o \in Orcids : o = Self
    BY <1>11, SelfIsOrcid DEF BindKey, LoggedIn, HoldInv
  <2>3. [orcid |-> o, revoked |-> FALSE] # None
    <3>1. [orcid |-> o, revoked |-> FALSE] \in BoundKey
      BY DEF BoundKey
    <3> QED
      BY <3>1, NamesApart
  <2>4. orcidKeys'[new] = [orcid |-> o, revoked |-> FALSE]
    <3>1. orcidKeys' = [orcidKeys EXCEPT ![new] = [orcid |-> o, revoked |-> FALSE]]
      BY <1>11, <2>1, <2>2 DEF BindKey
    <3> QED
      BY <2>1, <3>1 DEF HoldInv, Keys
  <2>5. Fits(OrcidKey(o), [who |-> o, secret |-> new])'
    BY <2>1, <2>3, <2>4 DEF Fits, OrcidKey
  <2>6. Begin(p, "bind", {OrcidKey(o)}, None, <<Save(OrcidKey(o), o, new)>>)
    BY <1>11, <2>1, <2>2 DEF BindKey
  <2> QED
    BY <1>4, <1>5, <1>7, <2>1, <2>5, <2>6
<1>12. ASSUME NEW k \in Secrets, RevokeKey(p, k) PROVE StoreHolds(G)' /\ \A q \in Processes : Works(q, G)'
  <2>1. PICK o \in Orcids : o = Self
    BY <1>12, SelfIsOrcid DEF RevokeKey, LoggedIn, HoldInv
  <2> DEFINE c == [does |-> "revoke", slots |-> {OrcidKey(o)}, of |-> None]
             step == [op |-> "forget", slot |-> OrcidKey(o), key |-> k]
  <2>2. Gone(OrcidKey(o)) \in Mine(c, G)
    BY <1>3, <1>4 DEF Mine, Gone
  <2>3. step \in StepsOf(Mine(c, G))
    BY <1>4, <2>2 DEF StepsOf, Forgets
  <2>4. <<step>> \in Seq(StepsOf(Mine(c, G)))
    BY <2>3
  <2>5. Begin(p, "revoke", {OrcidKey(o)}, None, <<step>>)
    BY <1>12, <2>1 DEF RevokeKey
  <2>6. {OrcidKey(o)} \in SUBSET Slot
    BY <1>4
  <2> HIDE DEF step
  <2> QED
    BY <1>1, <1>2, <1>5, <2>4, <2>5, <2>6, BeginWorks
<1>13. ASSUME NEW kind \in Tiers \cup {None}, Logout(p, kind)
       PROVE  StoreHolds(G)' /\ \A q \in Processes : Works(q, G)'
  <2> DEFINE bearers == IF kind = None THEN Bearers ELSE {Bearer(kind)}
             kinds == (IF kind \in {None, "agent"} THEN {"agent_key"} ELSE {})
                      \cup (IF kind \in {None, "orcid"} THEN {"orcid_key"} ELSE {})
             self == IF Held(Bearer("orcid")) = None THEN None ELSE Self
             slots == bearers \cup {s \in AgentKeys \cup OrcidKeys : s.kind \in kinds}
             c == [does |-> "logout", slots |-> slots, of |-> self]
             sweep == [op |-> "sweep", of |-> self, kinds |-> kinds]
             first == WriteAll(Forgotten(bearers))
             rest == IF kinds = {} THEN <<>> ELSE <<sweep>>
  <2>1. Begin(p, "logout", slots, self, first \o rest)
    BY <1>13 DEF Logout
  <2>2. bearers \subseteq Slot /\ slots \in SUBSET Slot
    BY <1>4
  <2>3. self \in Names
    BY <1>5, SelfIsOrcid DEF HoldInv
  <2>4. \A s \in slots : Gone(s) \in Mine(c, G)
    BY <1>3, <2>2 DEF Mine, Gone
  <2>5. first \in Seq(StepsOf(Mine(c, G)))
    <3>1. Forgotten(bearers) \in SUBSET Mine(c, G)
      BY <2>4 DEF Forgotten, Gone
    <3> HIDE DEF c, bearers
    <3> QED
      BY <3>1, WriteAllIn
  <2>6. rest \in Seq(StepsOf(Mine(c, G)))
    <3>1. kinds \in SUBSET {"orcid_key", "agent_key"}
      OBVIOUS
    <3>2. \A s \in AgentKeys \cup OrcidKeys : s.kind \in kinds => Gone(s) \in Mine(c, G)
      BY <2>4
    <3> HIDE DEF c, kinds, self
    <3>3. sweep \in StepsOf(Mine(c, G))
      BY <2>3, <3>1, <3>2 DEF StepsOf, Sweeps
    <3> HIDE DEF sweep
    <3> QED
      BY <3>3
  <2>7. first \o rest \in Seq(StepsOf(Mine(c, G)))
    BY <2>5, <2>6
  <2> HIDE DEF slots, self, first, rest
  <2> QED
    BY <1>1, <1>2, <2>1, <2>2, <2>3, <2>7, BeginWorks
<1> QED
  BY <1>8, <1>9, <1>10, <1>11, <1>12, <1>13 DEF Start

LEMMA HoldBegins == Init => HoldInv
<1> SUFFICES ASSUME Init PROVE HoldInv
  OBVIOUS
<1>1. Keys
  BY NamesApart DEF Init, Keys
<1>2. Empty \in Filled(Fit)
  BY GoneFits DEF Empty, Filled, Contents, Gone
<1>3. StoreHolds(Fit)
  BY <1>2 DEF Init, StoreInit, StoreHolds
<1>4. Shapes /\ \A p \in Processes : Works(p, Fit)
  BY DEF Init, StoreInit, Shapes, Works
<1> QED
  BY <1>1, <1>3, <1>4 DEF HoldInv

LEMMA HoldInductive == HoldInv /\ [Next]_vars => HoldInv'
<1> SUFFICES ASSUME HoldInv, [Next]_vars PROVE HoldInv'
  OBVIOUS
<1>1. Keys' /\ Grows
  BY ServerGrows, SelfIsOrcid DEF HoldInv, LoggedIn
<1>2. Shapes'
  BY ShapesKept DEF HoldInv
<1>3. PICK G : G = Fit'
  OBVIOUS
<1>4. Fit \subseteq G /\ G \in SUBSET Row
  BY <1>1, <1>3, FitGrows DEF HoldInv, Fit
<1>5. Shapes /\ StoreHolds(G) /\ \A q \in Processes : Works(q, G)
  BY <1>4, HoldMore DEF HoldInv
<1>6. \A s \in Slot : Gone(s) \in G
  BY <1>4, GoneFits
<1>7. ASSUME UNCHANGED <<backend, store, local>> PROVE StoreHolds(G)' /\ \A q \in Processes : Works(q, G)'
  BY <1>5, <1>7 DEF StoreHolds, Works, store, local
<1>8. ASSUME NEW p \in Processes, Run(p) \/ Crash(p) PROVE StoreHolds(G)' /\ \A q \in Processes : Works(q, G)'
  BY <1>4, <1>5, <1>6, <1>8, StoreStep, WorkStep, OthersWork
<1>9. ASSUME NEW p \in Processes, Start(p) PROVE StoreHolds(G)' /\ \A q \in Processes : Works(q, G)'
  BY <1>1, <1>3, <1>4, <1>9, StartHolds
<1>10. StoreHolds(G)' /\ \A q \in Processes : Works(q, G)'
  BY <1>7, <1>8, <1>9
  DEF Next, Annotate, Submit, Call, Send, Serve, Receive, Verify, Reject, Admit, Accept, Expire, Rotate, vars
<1> QED
  BY <1>1, <1>2, <1>3, <1>10 DEF HoldInv

\* However commands overlap on one machine, are killed, tear the file or take each other's
\* copies of it for theirs: a key the machine holds is one the server knows as that
\* ORCID iD's, an agent key's handle is enrolled. Commands tell the server first.
THEOREM KeysAreBound == Spec => []HeldIsBound
<1>1. HoldInv => HeldIsBound
  <2> SUFFICES ASSUME HoldInv PROVE HeldIsBound
    OBVIOUS
  <2>1. \A o \in Orcids : OrcidKey(o) \in Slot /\ OrcidKey(o).kind = "orcid_key" /\ OrcidKey(o).of = o
    BY DEF Slot, OrcidKeys, OrcidKey
  <2>2. \A h \in Handles : AgentKey(h) \in Slot /\ AgentKey(h).kind = "agent_key" /\ AgentKey(h).of = h
    BY DEF Slot, AgentKeys, AgentKey
  <2>3. ASSUME NEW o \in Orcids, Held(OrcidKey(o)) # None
        PROVE  LET k == Held(OrcidKey(o)).secret IN orcidKeys[k] # None /\ orcidKeys[k].orcid = o
    BY <2>1, <2>3, HeldFits DEF HoldInv, Fits
  <2>4. ASSUME NEW h \in Handles, Held(AgentKey(h)) # None PROVE agents[h] # None
    BY <2>2, <2>4, HeldFits DEF HoldInv, Fits
  <2> QED
    BY <2>3, <2>4 DEF HeldIsBound
<1>2. Init => HoldInv
  BY HoldBegins
<1>3. HoldInv /\ [Next]_vars => HoldInv'
  BY HoldInductive
<1> QED
  BY <1>1, <1>2, <1>3, PTL DEF Spec

-----------------------------------------------------------------------------
(***************************************************************************)
(* Whatever the middleware lets through was good when it arrived.          *)
(***************************************************************************)
\* The identity and the signature of a request, as far as the proofs look into them.
LEMMA RequestParts ==
  ASSUME NEW q \in Request
  PROVE  /\ q # None /\ q.at \in Places /\ q.good \in BOOLEAN
         /\ q.token \in Secrets /\ (q.sig # None => q.sig \in Signature)
         /\ q.who \in Identity \cup {None}
BY ServerAssumption DEF Request

LEMMA IdentityParts ==
  ASSUME NEW who \in Identity
  PROVE  /\ who # None /\ who.kind \in {"agent", "orcid", "anonymous"}
         /\ who.kind = "agent" => who.id \in Handles
BY ServerAssumption DEF Identity

\* What the middleware looks up after the body it would have found before.
LEMMA CheckedBefore ==
  ASSUME Keys, Grows, NEW sig \in Signature, Made(sig), NEW who \in Identity,
         Verifies(sig)', Belongs(sig, who)'
  PROVE  Verifies(sig) /\ Belongs(sig, who)
<1> USE NamesApart
<1>1. CASE sig.id \in Secrets
  <2>1. sig.id <= minted /\ sig.id \in Nat
    BY <1>1 DEF Made
  <2>2. orcidKeys'[sig.id] # None /\ ~orcidKeys'[sig.id].revoked /\ sig.key = sig.id
    BY <1>1 DEF Verifies
  <2>3. orcidKeys[sig.id] # None
    BY <1>1, <2>1, <2>2 DEF Grows
  <2>4. orcidKeys'[sig.id] = orcidKeys[sig.id]
    <3>1. orcidKeys[sig.id] \in BoundKey
      BY <1>1, <2>3 DEF Keys
    <3>2. [orcidKeys[sig.id] EXCEPT !.revoked = TRUE].revoked = TRUE
      BY <3>1 DEF BoundKey
    <3> QED
      BY <1>1, <2>1, <2>2, <2>3, <3>2 DEF Grows
  <2>5. Verifies(sig)
    BY <1>1, <2>2, <2>4 DEF Verifies
  <2>6. Belongs(sig, who)
    BY <2>4 DEF Belongs
  <2> QED
    BY <2>5, <2>6
<1>2. CASE sig.id \notin Secrets
  <2>1. who.kind = "agent" /\ sig.id = who.id /\ sig.id \in Handles
    BY <1>2, IdentityParts DEF Belongs
  <2>2. agents'[sig.id] = sig.key
    BY <1>2 DEF Verifies
  <2>3. minted \in Nat /\ sig.key \in Nat /\ sig.key <= minted
    BY DEF Made, Keys
  <2>4. agents[sig.id] = sig.key
    BY <2>1, <2>2, <2>3 DEF Grows
  <2> QED
    BY <1>2, <2>1, <2>4 DEF Verifies, Belongs
<1> QED
  BY <1>1, <1>2

LEMMA CheckedStays ==
  ASSUME Keys, Grows, NEW q \in Request, Checked(q)
  PROVE  Checked(q)'
<1> USE NamesApart
<1>1. minted \in Nat /\ minted' \in Nat /\ minted <= minted' /\ q.token \in Secrets /\ q.token <= minted
  BY RequestParts DEF Keys, Grows, Checked, Sent
<1>2. Sent(q)'
  <2>1. q.token \in 1 .. minted'
    <3>1. q.token \in 1 .. minted
      BY DEF Checked, Sent
    <3> QED
      BY ONLY <1>1, <3>1
  <2>2. ASSUME q.sig # None PROVE Made(q.sig)'
    <3>1. Made(q.sig)
      BY <2>2 DEF Checked, Sent
    <3>2. q.sig.key \in 1 .. minted'
      BY <1>1, <3>1 DEF Made
    <3>3. ASSUME q.sig.id \in Secrets PROVE q.sig.id <= minted'
      <4>1. q.sig.id \in Nat /\ q.sig.id <= minted
        BY <3>1, <3>3 DEF Made
      <4> QED
        BY ONLY <1>1, <4>1
    <3> QED
      BY <3>2, <3>3 DEF Made
  <2> QED
    BY <1>1, <2>1, <2>2 DEF Sent
<1>3. tokens'[q.token] \in {tokens[q.token], None}
  BY <1>1 DEF Grows
<1>4. q.at \in {"body", "passed"} => Known(q)'
  BY <1>3 DEF Checked, Known
<1>5. ASSUME q.at = "body" PROVE InBody(q)'
  <2>1. q.who \in Identity
    BY <1>5, RequestParts DEF Checked, InBody
  <2>2. ASSUME q.sig # None, Verifies(q.sig)', Belongs(q.sig, q.who)' PROVE q.good
    <3>1. q.sig \in Signature /\ Made(q.sig)
      BY <2>2, RequestParts DEF Checked, Sent
    <3>2. Verifies(q.sig) /\ Belongs(q.sig, q.who)
      BY <2>1, <2>2, <3>1, CheckedBefore
    <3> QED
      BY <1>5, <2>2, <3>2 DEF Checked, InBody
  <2> QED
    BY <1>5, <2>2 DEF Checked, InBody
<1>6. q.at = "passed" => Passed(q)'
  BY <1>3 DEF Checked, Passed
<1> QED
  BY <1>2, <1>4, <1>5, <1>6 DEF Checked, Admitted

\* What the middleware finds after the body, if nothing changes meanwhile, makes the
\* key one that signs for that identity.
LEMMA VerifiedSigns ==
  ASSUME Keys, NEW sig \in Signature, NEW who \in Identity, Verifies(sig), Belongs(sig, who)
  PROVE  SignsFor(sig, who)
<1> USE NamesApart
<1>1. CASE who.kind = "agent" /\ sig.id = who.id
  BY <1>1, IdentityParts DEF Verifies, SignsFor
<1>2. CASE who.kind = "orcid" /\ sig.id \in Secrets /\ orcidKeys[sig.id].orcid = who.id
  <2>1. orcidKeys[sig.id] # None /\ ~orcidKeys[sig.id].revoked /\ sig.key = sig.id
    BY <1>2 DEF Verifies
  <2>2. orcidKeys[sig.key] \in BoundKey
    BY <1>2, <2>1 DEF Keys
  <2>3. orcidKeys[sig.key] = [orcid |-> who.id, revoked |-> FALSE]
    BY <1>2, <2>1, <2>2 DEF BoundKey
  <2> QED
    BY <1>2, <2>3 DEF SignsFor
<1> QED
  BY <1>1, <1>2 DEF Belongs

LEMMA ReceiveChecks ==
  ASSUME Keys, NEW q \in Request, Checked(q), q.at = "sent",
         NEW who, who = tokens[q.token], NEW checked \in BOOLEAN,
         checked <=> who # None /\ (who.kind = "agent" \/ q.sig # None),
         NEW good \in BOOLEAN, good <=> checked /\ q.sig # None /\ SignsFor(q.sig, who),
         NEW a, a = [q EXCEPT !.at = IF checked THEN "body" ELSE "passed", !.who = who, !.good = good]
  PROVE  a \in Request /\ Checked(a)
<1>1. who \in Identity \cup {None}
  BY RequestParts DEF Keys
<1>2. a \in Request
  BY <1>1 DEF Request, Places
<1>3. a.token = q.token /\ a.sig = q.sig /\ a.who = who /\ a.good = good
      /\ a.at = IF checked THEN "body" ELSE "passed"
  BY DEF Request
<1>4. Sent(a) /\ Known(a)
  BY <1>1, <1>3 DEF Checked, Sent, Known
<1>5. CASE checked
  <2>1. who \in Identity
    BY <1>1, <1>5
  <2>2. InBody(a)
    BY <1>3, <1>5, <2>1, VerifiedSigns, RequestParts, IdentityParts DEF InBody
  <2> QED
    BY <1>2, <1>3, <1>4, <1>5, <2>2 DEF Checked
<1>6. CASE ~checked
  <2>1. Passed(a)
    BY <1>3, <1>6 DEF Passed
  <2> QED
    BY <1>2, <1>3, <1>4, <1>6, <2>1 DEF Checked
<1> QED
  BY <1>5, <1>6

LEMMA VerifyChecks ==
  ASSUME Keys, NEW q \in Request, Checked(q), q.at = "body",
         q.sig # None, Verifies(q.sig), Belongs(q.sig, q.who),
         NEW a, a = [q EXCEPT !.at = "passed"]
  PROVE  a \in Request /\ Checked(a)
<1>1. a \in Request
  BY DEF Request, Places
<1>2. a.token = q.token /\ a.sig = q.sig /\ a.who = q.who /\ a.good = q.good /\ a.at = "passed"
  BY DEF Request
<1> QED
  BY <1>1, <1>2 DEF Checked, Sent, Known, InBody, Passed

LEMMA AdmitChecks ==
  ASSUME Keys, NEW q \in Request, Checked(q), q.at = "passed",
         NEW who, who = tokens[q.token], who # None, who.kind # "anonymous",
         NEW a, a = [q EXCEPT !.at = "admitted", !.who = who]
  PROVE  a \in Request /\ Checked(a)
<1>1. who \in Identity /\ who = q.who
  BY RequestParts DEF Keys, Checked, Known
<1>2. a \in Request
  BY <1>1 DEF Request, Places
<1>3. a.token = q.token /\ a.sig = q.sig /\ a.who = who /\ a.good = q.good /\ a.at = "admitted"
  BY DEF Request
<1>4. Admitted(a)
  BY <1>1, <1>3, IdentityParts DEF Checked, Passed, Admitted
<1> QED
  BY <1>2, <1>3, <1>4 DEF Checked, Sent

LEMMA HeldSecret ==
  ASSUME HoldInv, NEW s \in Slot, Held(s) # None
  PROVE  Held(s).secret \in 1 .. minted /\ Held(s).secret \in Secrets
BY HeldFits, NamesApart DEF HoldInv, Keys, Fits, Secrets

\* What a command signs with is a key the server has minted.
LEMMA SignatureMade ==
  ASSUME HoldInv, NEW kind \in Tiers, Usable(kind), SignatureOf(kind) # None
  PROVE  SignatureOf(kind) \in Signature /\ Made(SignatureOf(kind))
<1> DEFINE bearer == Held(Bearer(kind))
           who == bearer.who
<1>1. Bearer(kind) \in Slot /\ Bearer(kind).kind = kind
  BY DEF Slot, Bearers, Bearer
<1>2. bearer # None
  BY DEF Usable
<1>3. Fits(Bearer(kind), bearer)
  BY <1>1, <1>2, HeldFits DEF HoldInv
<1>4. CASE kind = "agent"
  <2> DEFINE key == Held(AgentKey(who))
  <2>1. who \in Handles /\ AgentKey(who) \in Slot
    BY <1>1, <1>3, <1>4 DEF Fits, Slot, AgentKeys
  <2>2. key # None
    BY <1>4 DEF Usable
  <2>3. key.secret \in 1 .. minted /\ key.secret \in Secrets
    BY <2>1, <2>2, HeldSecret
  <2>4. SignatureOf(kind) = [id |-> who, key |-> key.secret]
    BY <1>4, <2>2 DEF SignatureOf
  <2> HIDE DEF bearer, who, key
  <2> QED
    BY <2>1, <2>3, <2>4, NamesApart DEF Signature, Made
<1>5. CASE kind = "orcid"
  <2> DEFINE key == Held(OrcidKey(who))
  <2>1. who \in Orcids /\ OrcidKey(who) \in Slot
    BY <1>1, <1>3, <1>5 DEF Fits, Slot, OrcidKeys
  <2>2. key # None
    BY <1>5 DEF SignatureOf
  <2>3. key.secret \in 1 .. minted /\ key.secret \in Secrets
    BY <2>1, <2>2, HeldSecret
  <2>4. SignatureOf(kind) = [id |-> key.secret, key |-> key.secret]
    BY <1>5, <2>2 DEF SignatureOf
  <2>5. minted \in Nat
    BY NamesApart DEF HoldInv, Keys
  <2> HIDE DEF bearer, who, key
  <2> QED
    BY <2>1, <2>3, <2>4, <2>5 DEF Signature, Made
<1>6. CASE kind \notin {"agent", "orcid"}
  BY <1>6 DEF SignatureOf
<1> QED
  BY <1>4, <1>5, <1>6

LEMMA PairsMade ==
  ASSUME Keys, NEW sig \in Pairs
  PROVE  sig \in Signature /\ Made(sig)
<1> USE NamesApart
<1>1. CASE \E k \in Secrets : orcidKeys[k] # None /\ sig = [id |-> k, key |-> k]
  <2>1. PICK k \in Secrets : orcidKeys[k] # None /\ sig = [id |-> k, key |-> k]
    BY <1>1
  <2>2. k \in 1 .. minted
    BY <2>1 DEF Keys, Secrets
  <2> QED
    BY <2>1, <2>2 DEF Signature, Made, Keys
<1>2. CASE \E h \in Handles : agents[h] # None /\ sig = [id |-> h, key |-> agents[h]]
  <2>1. PICK h \in Handles : agents[h] # None /\ sig = [id |-> h, key |-> agents[h]]
    BY <1>2
  <2>2. agents[h] \in Secrets /\ agents[h] \in 1 .. minted
    BY <2>1 DEF Keys, Secrets
  <2> QED
    BY <2>1, <2>2 DEF Signature, Made
<1> QED
  BY <1>1, <1>2 DEF Pairs

LEMMA SendChecks ==
  ASSUME Keys, ReqInv, NEW r \in Requests, NEW token \in 1 .. minted, NEW sig,
         sig # None => sig \in Signature /\ Made(sig), Send(r, token, sig)
  PROVE  ReqInv'
<1> DEFINE a == [at |-> "sent", token |-> token, sig |-> sig, who |-> None, good |-> FALSE]
<1>1. token \in Secrets
  BY NamesApart DEF Keys, Secrets
<1>2. a \in Request
  BY <1>1 DEF Request, Places
<1>3. Checked(a)
  BY DEF Checked, Sent
<1> HIDE DEF a
<1>4. Checked(a)' /\ \A q \in Request : Checked(q) => Checked(q)'
  BY <1>3 DEF Send, server, Checked, Sent, Made, Known, InBody, Passed, Admitted, Verifies, Belongs
<1>5. req' = [req EXCEPT ![r] = a]
  BY DEF Send, a
<1> QED
  BY <1>2, <1>4, <1>5 DEF ReqInv

\* One request is answered, or goes on as a request that was checked.
LEMMA ServeChecks ==
  ASSUME Keys, ReqInv, NEW r \in Requests, Serve(r)
  PROVE  ReqInv'
<1>1. UNCHANGED server
  BY DEF Serve, Receive, Verify, Reject, Admit, Accept
<1>2. \A q \in Request : Checked(q) => Checked(q)'
  BY <1>1 DEF server, Checked, Sent, Made, Known, InBody, Passed, Admitted, Verifies, Belongs
<1>3. req[r] # None /\ req[r] \in Request /\ Checked(req[r])
  BY DEF Serve, Receive, Verify, Reject, Admit, Accept, ReqInv
<1>4. ASSUME NEW a, a = None \/ (a \in Request /\ Checked(a)), req' = [req EXCEPT ![r] = a]
      PROVE  ReqInv'
  BY <1>2, <1>4 DEF ReqInv
<1>5. CASE Receive(r)
  <2> DEFINE who == tokens[req[r].token]
             checked == who # None /\ (who.kind = "agent" \/ req[r].sig # None)
             good == checked /\ req[r].sig # None /\ SignsFor(req[r].sig, who)
             a == [req[r] EXCEPT !.at = IF checked THEN "body" ELSE "passed", !.who = who, !.good = good]
  <2>1. req' = [req EXCEPT ![r] = a]
    BY <1>5 DEF Receive, ReqInv
  <2>2. req[r].at = "sent" /\ checked \in BOOLEAN /\ good \in BOOLEAN
    BY <1>5 DEF Receive
  <2>3. a \in Request /\ Checked(a)
    BY <1>3, <2>2, ReceiveChecks
  <2> HIDE DEF a
  <2> QED
    BY <1>4, <2>1, <2>3
<1>6. CASE Verify(r)
  <2> DEFINE a == [req[r] EXCEPT !.at = "passed"]
             good == req[r].sig # None /\ Verifies(req[r].sig) /\ Belongs(req[r].sig, req[r].who)
  <2>1. req[r].at = "body" /\ req' = [req EXCEPT ![r] = IF good THEN a ELSE None]
    BY <1>6 DEF Verify, ReqInv
  <2>2. good => a \in Request /\ Checked(a)
    BY <1>3, <2>1, VerifyChecks
  <2> HIDE DEF a, good
  <2> QED
    BY <1>4, <2>1, <2>2
<1>7. CASE Reject(r) \/ Accept(r)
  BY <1>4, <1>7 DEF Reject, Accept
<1>8. CASE Admit(r)
  <2> DEFINE who == tokens[req[r].token]
             fits == who # None /\ who.kind # "anonymous"
             a == [req[r] EXCEPT !.at = "admitted", !.who = who]
  <2>1. req[r].at = "passed" /\ req' = [req EXCEPT ![r] = IF fits THEN a ELSE None]
    BY <1>8 DEF Admit, ReqInv
  <2>2. fits => a \in Request /\ Checked(a)
    BY <1>3, <2>1, AdmitChecks
  <2> HIDE DEF a, fits
  <2> QED
    BY <1>4, <2>1, <2>2
<1> QED
  BY <1>5, <1>6, <1>7, <1>8 DEF Serve

LEMMA ReqInductive == HoldInv /\ ReqInv /\ [Next]_vars => ReqInv'
<1> SUFFICES ASSUME HoldInv, ReqInv, [Next]_vars PROVE ReqInv'
  OBVIOUS
<1>1. Keys /\ Grows
  BY ServerGrows, SelfIsOrcid DEF HoldInv, LoggedIn
<1>2. CASE UNCHANGED req
  BY <1>1, <1>2, CheckedStays DEF ReqInv
<1>3. ASSUME NEW r \in Requests, NEW kind \in Tiers, Annotate(r, kind) \/ Submit(r, kind) PROVE ReqInv'
  <2>1. Held(Bearer(kind)) # None /\ Usable(kind) /\ Bearer(kind) \in Slot
    BY <1>3 DEF Annotate, Submit, Usable, Slot, Bearers
  <2>2. Held(Bearer(kind)).secret \in 1 .. minted
    BY <2>1, HeldSecret
  <2>3. SignatureOf(kind) # None => SignatureOf(kind) \in Signature /\ Made(SignatureOf(kind))
    BY <2>1, SignatureMade
  <2>4. PICK sig \in {SignatureOf(kind), None} : Send(r, Held(Bearer(kind)).secret, sig)
    BY <1>3 DEF Annotate, Submit
  <2> QED
    BY <1>1, <2>2, <2>3, <2>4, SendChecks
<1>4. ASSUME NEW r \in Requests, Call(r) PROVE ReqInv'
  BY <1>1, <1>4, PairsMade, SendChecks DEF Call
<1>5. ASSUME NEW r \in Requests, Serve(r) PROVE ReqInv'
  BY <1>1, <1>5, ServeChecks
<1>6. ASSUME NEW p \in Processes, Start(p) PROVE UNCHANGED req
  BY <1>6 DEF Start, LoginOrcid, LoginAgent, LoginAnonymous, BindKey, RevokeKey, Logout
<1> QED
  BY <1>2, <1>3, <1>4, <1>5, <1>6 DEF Next, Expire, Rotate, vars

\* However keys are bound, revoked and rotated and tokens expire while a write waits for its
\* body: what is stored as signed was signed with a key that was that identity's and good
\* when the request arrived, and an agent's write is signed. A key that is good after the
\* body was good before it, because no key becomes good again.
THEOREM StoredWasGood == Spec => []AcceptedWasGood
<1>1. Init => HoldInv /\ ReqInv
  BY HoldBegins DEF Init, ReqInv
<1>2. HoldInv /\ ReqInv /\ [Next]_vars => (HoldInv /\ ReqInv)'
  BY HoldInductive, ReqInductive
<1>3. ReqInv => AcceptedWasGood
  BY DEF ReqInv, Checked, Admitted, AcceptedWasGood
<1> QED
  BY <1>1, <1>2, <1>3, PTL DEF Spec

-----------------------------------------------------------------------------
(***************************************************************************)
(* Disciplined commands.  Those that run together are about different      *)
(* slots; with a file nothing runs together, and a copy of the file        *)
(* differs from it in the slot that is being written.                      *)
(***************************************************************************)
Apart ==
  \A p, q \in Processes :
    p # q /\ cmd[p] # None /\ cmd[q] # None =>
      backend = "keyring" /\ cmd[p].slots \cap cmd[q].slots = {}

CopyExact(p) ==
  /\ at[p] \in {"open", "write", "replace"} => data[p] = [file EXCEPT ![doing[p].slot] = doing[p].rec]
  /\ at[p] = "write" => fd[p] = "tmp" /\ tmp = Torn
  /\ at[p] = "replace" => tmp = data[p]
Exact == backend = "file" => file # Torn /\ \A p \in Processes : CopyExact(p)

\* What is still to come of a logout clears each slot it is about, except those its
\* contract spares.
Rng(t) == {t[i] : i \in DOMAIN t}

Spared(p, s) == backend = "keyring" /\ s \notin Bearers /\ s.of # cmd[p].of
Doomed(p, s) ==
  \/ backend = "file" /\ at[p] # "ready" /\ doing[p].slot = s
  \/ \E step \in Rng(todo[p]) : step.op = "write" /\ \E row \in step.rows : row.slot = s
  \/ \E step \in Rng(todo[p]) :
       /\ step.op = "sweep" /\ step.of = cmd[p].of
       /\ s \in AgentKeys \cup OrcidKeys /\ s.kind \in step.kinds
Clears(p) ==
  cmd[p] # None /\ cmd[p].does = "logout" =>
    /\ cmd[p].of \in Orcids \cup {None}
    /\ \A s \in cmd[p].slots : Held(s) # None => Spared(p, s) \/ Doomed(p, s)

CarefulInv == Apart /\ Exact /\ \A p \in Processes : Clears(p)

LEMMA RngOfConcat ==
  ASSUME NEW S, NEW t \in Seq(S), NEW u \in Seq(S)
  PROVE  Rng(t \o u) = Rng(t) \cup Rng(u)
<1>1. /\ t \o u \in Seq(S) /\ Len(t \o u) = Len(t) + Len(u)
      /\ \A i \in 1 .. Len(t) + Len(u) : (t \o u)[i] = IF i <= Len(t) THEN t[i] ELSE u[i - Len(t)]
  BY ConcatProperties
<1>2. Len(t) \in Nat /\ Len(u) \in Nat /\ DOMAIN t = 1 .. Len(t) /\ DOMAIN u = 1 .. Len(u)
      /\ DOMAIN (t \o u) = 1 .. Len(t) + Len(u)
  BY <1>1, LenProperties
<1> DEFINE v == t \o u
<1>3. \A i \in DOMAIN v : v[i] \in Rng(t) \cup Rng(u)
  <2> SUFFICES ASSUME NEW i \in 1 .. Len(t) + Len(u) PROVE v[i] \in Rng(t) \cup Rng(u)
    BY <1>2
  <2>1. CASE i <= Len(t)
    BY <1>1, <1>2, <2>1 DEF Rng
  <2>2. CASE ~(i <= Len(t))
    <3>1. i - Len(t) \in 1 .. Len(u)
      BY <1>2, <2>2
    <3> QED
      BY <1>1, <1>2, <2>2, <3>1 DEF Rng
  <2> QED
    BY <2>1, <2>2
<1>4. \A i \in DOMAIN t : t[i] \in Rng(v)
  <2> SUFFICES ASSUME NEW i \in 1 .. Len(t) PROVE t[i] \in Rng(v)
    BY <1>2
  <2>1. i \in 1 .. Len(t) + Len(u) /\ v[i] = t[i]
    BY <1>1, <1>2
  <2> QED
    BY <1>2, <2>1 DEF Rng
<1>5. \A i \in DOMAIN u : u[i] \in Rng(v)
  <2> SUFFICES ASSUME NEW i \in 1 .. Len(u) PROVE u[i] \in Rng(v)
    BY <1>2
  <2>1. Len(t) + i \in 1 .. Len(t) + Len(u) /\ ~(Len(t) + i <= Len(t)) /\ (Len(t) + i) - Len(t) = i
    BY <1>2
  <2>2. v[Len(t) + i] = u[i]
    BY <1>1, <2>1
  <2> QED
    BY <1>2, <2>1, <2>2 DEF Rng
<1> HIDE DEF v
<1>6. Rng(v) = Rng(t) \cup Rng(u)
  BY <1>3, <1>4, <1>5 DEF Rng
<1> QED
  BY <1>6 DEF v

LEMMA RngOfTail ==
  ASSUME NEW S, NEW t \in Seq(S), t # <<>>
  PROVE  Rng(t) = {Head(t)} \cup Rng(Tail(t))
<1>1. Head(t) \in S /\ Tail(t) \in Seq(S) /\ t = <<Head(t)>> \o Tail(t)
  BY HeadTailProperties
<1>2. <<Head(t)>> \in Seq(S) /\ Rng(<<Head(t)>>) = {Head(t)}
  BY <1>1 DEF Rng
<1> DEFINE h == <<Head(t)>>
           r == Tail(t)
<1>3. t = h \o r /\ h \in Seq(S) /\ r \in Seq(S) /\ Rng(h) = {Head(t)}
  BY <1>1, <1>2
<1> HIDE DEF h, r
<1>4. Rng(h \o r) = Rng(h) \cup Rng(r)
  <2>1. h \in Seq(S) /\ r \in Seq(S)
    BY <1>3
  <2> QED
    BY ONLY <2>1, RngOfConcat, Zenon
<1> QED
  BY <1>3, <1>4 DEF r

\* What is in the rest of a command's steps after one of them.
LEMMA RestOfSteps ==
  ASSUME NEW R, NEW t \in Seq(StepsOf(R)), t # <<>>, NEW rows \in SUBSET R
  PROVE  /\ Rng(t) = {Head(t)} \cup Rng(Tail(t))
         /\ Rng(WriteAll(rows) \o Tail(t)) =
              (IF rows = {} THEN {} ELSE {[op |-> "write", rows |-> rows]}) \cup Rng(Tail(t))
<1>1. WriteAll(rows) \in Seq(StepsOf(R)) /\ Tail(t) \in Seq(StepsOf(R))
  BY WriteAllIn, HeadTailProperties
<1>2. Rng(WriteAll(rows)) = IF rows = {} THEN {} ELSE {[op |-> "write", rows |-> rows]}
  BY DEF WriteAll, Rng
<1>3. Rng(WriteAll(rows) \o Tail(t)) = Rng(WriteAll(rows)) \cup Rng(Tail(t))
  BY <1>1, RngOfConcat
<1> QED
  BY <1>2, <1>3, RngOfTail

-----------------------------------------------------------------------------
LEMMA ApartStep ==
  ASSUME Disciplined, Shapes, Apart, [Next]_vars
  PROVE  Apart'
<1>1. backend' = backend
  BY DEF Next, Start, LoginOrcid, LoginAgent, LoginAnonymous, BindKey, RevokeKey, Logout, Begin,
         Run, Put, Load, Open, Write, Replace, Sweep, Forget, Return, Crash,
         Annotate, Submit, Call, Send, Serve, Receive, Verify, Reject, Admit, Accept, Expire, Rotate, vars
<1>2. ASSUME \A q \in Processes : cmd'[q] \in {cmd[q], None} PROVE Apart'
  BY <1>1, <1>2 DEF Apart
<1>3. ASSUME NEW p \in Processes, Start(p) PROVE Apart'
  <2>1. PICK does, slots, of, steps : Begin(p, does, slots, of, steps)
    BY <1>3 DEF Start, LoginOrcid, LoginAgent, LoginAnonymous, BindKey, RevokeKey, Logout
  <2>2. \A q \in Processes : cmd[q] # None => backend = "keyring" /\ cmd[q].slots \cap slots = {}
    BY <2>1 DEF Begin, Allowed
  <2>3. cmd'[p].slots = slots /\ \A q \in Processes : q # p => cmd'[q] = cmd[q]
    BY <2>1 DEF Begin, Shapes
  <2> QED
    BY <1>1, <2>2, <2>3 DEF Apart
<1>4. ASSUME NEW p \in Processes, Run(p) PROVE Apart'
  <2>1. \A q \in Processes : cmd'[q] \in {cmd[q], None}
    BY <1>4 DEF Shapes, Run, Put, Load, Open, Write, Replace, Quit, Sweep, Forget, Return
  <2> QED
    BY <1>2, <2>1
<1>5. ASSUME NEW p \in Processes, Crash(p) PROVE Apart'
  BY <1>2, <1>5 DEF Shapes, Crash, Quit
<1> QED
  BY <1>2, <1>3, <1>4, <1>5
  DEF Next, Annotate, Submit, Call, Send, Serve, Receive, Verify, Reject, Admit, Accept, Expire, Rotate, vars, local

\* With a file, while one process works the others have nothing to do.
LEMMA OthersRest ==
  ASSUME Apart, NEW R, \A q \in Processes : Works(q, R), backend = "file",
         NEW p \in Processes, cmd[p] # None, NEW q \in Processes, q # p
  PROVE  cmd[q] = None /\ at[q] = "ready"
BY DEF Apart, Works

LEMMA ActiveRuns ==
  ASSUME NEW p \in Processes, NEW R, Works(p, R), Run(p) \/ Crash(p)
  PROVE  cmd[p] # None
BY DEF Run, Put, Load, Open, Write, Replace, Sweep, Forget, Return, Done, Crash, Works

LEMMA ExactStep ==
  ASSUME NEW R \in SUBSET Row, Shapes, Apart, Exact, StoreHolds(R), \A q \in Processes : Works(q, R),
         NEW p \in Processes, Run(p) \/ Crash(p)
  PROVE  Exact'
<1> SUFFICES ASSUME backend = "file" PROVE file' # Torn /\ \A q \in Processes : CopyExact(q)'
  BY DEF Exact, Run, Put, Load, Open, Write, Replace, Sweep, Forget, Return, Crash
<1>1. file # Torn /\ CopyExact(p) /\ cmd[p] # None /\ data[p] \in Filled(R)
  BY ActiveRuns DEF Exact, StoreHolds
<1>2. \A q \in Processes : q # p => at[q] = "ready"
  BY <1>1, OthersRest
<1>3. \A q \in Processes : q # p => at'[q] = "ready"
  BY <1>2 DEF Shapes, Run, Put, Load, Open, Write, Replace, Quit, Sweep, Forget, Return, Crash
<1>4. \A q \in Processes : q # p => CopyExact(q)'
  BY <1>3 DEF CopyExact
<1> SUFFICES file' # Torn /\ CopyExact(p)'
  BY <1>4
<1>5. data[p] # Torn /\ data[p] # None
  BY <1>1, ConstantsAssumption DEF Filled
<1>6. ASSUME at'[p] \in {"ready", "load"}, file' = file PROVE file' # Torn /\ CopyExact(p)'
  BY <1>1, <1>6 DEF CopyExact
<1>7. CASE Put(p)
  BY <1>6, <1>7 DEF Put, Shapes
<1>8. CASE Load(p)
  BY <1>1, <1>8 DEF Load, Shapes, CopyExact, Loaded, Entry, store
<1>9. CASE Open(p)
  BY <1>1, <1>9 DEF Open, Shapes, CopyExact
<1>10. CASE Write(p)
  <2>1. tmp = Torn /\ fd[p] = "tmp" /\ data[p] = [file EXCEPT ![doing[p].slot] = doing[p].rec]
    BY <1>1, <1>10 DEF Write, CopyExact
  <2>2. tmp' = data[p] /\ file' = file
    BY <1>10, <2>1 DEF Write, Over
  <2>3. at'[p] = "replace" /\ data'[p] = data[p] /\ doing'[p] = doing[p]
    BY <1>10 DEF Write, Shapes
  <2> QED
    BY <1>1, <2>1, <2>2, <2>3 DEF CopyExact
<1>11. CASE Replace(p)
  <2>1. tmp = data[p]
    BY <1>1, <1>11 DEF Replace, CopyExact
  <2>2. file' = data[p] /\ at'[p] = "ready"
    BY <1>5, <1>11, <2>1 DEF Replace, Shapes
  <2> QED
    BY <1>5, <2>2 DEF CopyExact
<1>12. CASE Sweep(p) \/ Forget(p)
  BY <1>6, <1>12 DEF Sweep, Forget, store
<1>13. CASE Return(p) \/ Crash(p)
  BY <1>6, <1>13 DEF Return, Crash, Quit, Shapes, store
<1> QED
  BY <1>7, <1>8, <1>9, <1>10, <1>11, <1>12, <1>13 DEF Run

\* A step changes what the machine holds in a slot of the command whose step it is, and to
\* what that command writes.
LEMMA HeldStep ==
  ASSUME NEW R \in SUBSET Row, Shapes, Apart, Exact, StoreHolds(R), \A q \in Processes : Works(q, R),
         NEW p \in Processes, Run(p) \/ Crash(p), NEW s \in Slot, Held(s)' # Held(s)
  PROVE  \E row \in Mine(cmd[p], R) : row.slot = s /\ Held(s)' = row.rec
<1>1. backend' = backend
  BY DEF Run, Put, Load, Open, Write, Replace, Sweep, Forget, Return, Crash
<1>2. CASE backend = "keyring"
  <2>1. keyring'[s] # keyring[s] /\ Held(s)' = keyring'[s]
    BY <1>1, <1>2 DEF Held
  <2>2. Put(p)
    BY <2>1 DEF Run, Load, Open, Write, Replace, Sweep, Forget, Return, Crash, store
  <2>3. PICK row \in Head(todo[p]).rows : keyring' = [keyring EXCEPT ![row.slot] = row.rec]
    BY <1>2, <2>2 DEF Put
  <2>4. row \in Mine(cmd[p], R)
    BY <2>2, <2>3, HeadWrites, StepKinds DEF Put
  <2>5. keyring \in Filled(R)
    BY <1>2 DEF StoreHolds
  <2>6. row.slot = s /\ keyring'[s] = row.rec
    BY <2>1, <2>3, <2>5 DEF Filled, Contents
  <2> QED
    BY <1>2, <2>1, <2>2, <2>3, <2>4, <2>6
<1>3. CASE backend = "file"
  <2>1. file # Torn /\ CopyExact(p) /\ data[p] \in Filled(R) /\ file \in Filled(R)
    BY <1>3 DEF Exact, StoreHolds
  <2>2. data[p] # Torn
    BY <2>1, ConstantsAssumption DEF Filled
  <2>3. Held(s) = file[s] /\ (file' # Torn => Held(s)' = file'[s])
    BY <1>1, <1>3, <2>1 DEF Held, Loaded
  <2>4. file' # file
    BY <1>1, <1>3 DEF Held, Loaded
  <2>5. Replace(p) /\ tmp # None
    <3>1. Write(p) => file' = file
      BY <2>1 DEF Write, CopyExact
    <3> QED
      BY <2>4, <3>1 DEF Run, Put, Load, Open, Replace, Sweep, Forget, Return, Crash, store
  <2>6. file' = data[p] /\ data[p] = [file EXCEPT ![doing[p].slot] = doing[p].rec]
    BY <2>1, <2>5 DEF Replace, CopyExact
  <2>7. doing[p] \in Mine(cmd[p], R)
    BY <2>5 DEF Works, Replace
  <2>8. doing[p].slot = s /\ Held(s)' = doing[p].rec
    BY <2>1, <2>2, <2>3, <2>6 DEF Filled, Contents
  <2> QED
    BY <1>3, <2>5, <2>7, <2>8
<1> QED
  BY <1>2, <1>3 DEF StoreHolds

-----------------------------------------------------------------------------
\* Another's step leaves what a logout is about, and what it has still to do, alone.
LEMMA OthersClear ==
  ASSUME NEW R \in SUBSET Row, Shapes, Apart, Exact, StoreHolds(R), \A q \in Processes : Works(q, R),
         NEW p \in Processes, Run(p) \/ Crash(p), NEW q \in Processes, q # p, Clears(q)
  PROVE  Clears(q)'
<1> SUFFICES ASSUME cmd'[q] # None, cmd'[q].does = "logout"
             PROVE  /\ cmd'[q].of \in Orcids \cup {None}
                    /\ \A s \in cmd'[q].slots :
                         Held(s)' # None => Spared(q, s)' \/ Doomed(q, s)'
  BY DEF Clears
<1>1. cmd'[q] = cmd[q] /\ todo'[q] = todo[q] /\ at'[q] = at[q] /\ doing'[q] = doing[q]
  <2>1. CASE Run(p)
    BY <2>1 DEF Shapes, Run, Put, Load, Open, Write, Replace, Quit, Sweep, Forget, Return
  <2>2. CASE Crash(p)
    BY <2>2 DEF Shapes, Crash, Quit
  <2> QED
    BY <2>1, <2>2
<1>2. backend' = backend
  BY DEF Run, Put, Load, Open, Write, Replace, Sweep, Forget, Return, Crash
<1>3. cmd[p] # None /\ cmd[q] # None /\ cmd[q] \in Command
  BY <1>1, ActiveRuns DEF Works
<1>4. cmd[p].slots \cap cmd[q].slots = {} /\ cmd[q].slots \subseteq Slot
  BY <1>3 DEF Apart, Command
<1>5. ASSUME NEW s \in cmd[q].slots PROVE Held(s)' = Held(s)
  <2> SUFFICES ASSUME Held(s)' # Held(s) PROVE FALSE
    OBVIOUS
  <2>1. PICK row \in Mine(cmd[p], R) : row.slot = s
    BY <1>4, HeldStep DEF Held
  <2> QED
    BY <1>4, <2>1 DEF Mine
<1>6. ASSUME NEW s \in cmd'[q].slots, Held(s)' # None PROVE Spared(q, s)' \/ Doomed(q, s)'
  <2>1. Held(s) # None
    BY <1>1, <1>5, <1>6
  <2>2. Spared(q, s) \/ Doomed(q, s)
    BY <1>1, <1>3, <1>6, <2>1 DEF Clears
  <2> QED
    BY <1>1, <1>2, <2>2 DEF Spared, Doomed
<1> QED
  BY <1>1, <1>3, <1>6 DEF Clears

LEMMA OwnClear ==
  ASSUME NEW R \in SUBSET Row, Shapes, Apart, Exact, StoreHolds(R), \A q \in Processes : Works(q, R),
         NEW p \in Processes, Run(p) \/ Crash(p), Clears(p)
  PROVE  Clears(p)'
<1> DEFINE c == cmd[p]
<1> SUFFICES ASSUME cmd'[p] # None, cmd'[p].does = "logout"
             PROVE  /\ cmd'[p].of \in Orcids \cup {None}
                    /\ \A s \in cmd'[p].slots :
                         Held(s)' # None => Spared(p, s)' \/ Doomed(p, s)'
  BY DEF Clears
<1>1. backend' = backend
  BY DEF Run, Put, Load, Open, Write, Replace, Sweep, Forget, Return, Crash
<1>2. cmd'[p] = c /\ ~Return(p) /\ ~Crash(p)
  BY DEF Shapes, Run, Put, Load, Open, Write, Replace, Sweep, Forget, Return, Crash, Quit
<1>3. c # None /\ c \in Command /\ c.does = "logout" /\ c.of \in Orcids \cup {None} /\ c.slots \subseteq Slot
  BY <1>2, ActiveRuns DEF Works, Clears, Command
<1>4. \A row \in Mine(c, R) : row.rec = None
  BY <1>3 DEF Mine
<1> SUFFICES ASSUME NEW s \in c.slots, Held(s)' # None, ~Spared(p, s)'
             PROVE  Doomed(p, s)'
  BY <1>2, <1>3
<1>5. s \in Slot /\ Held(s)' = Held(s) /\ Held(s) # None /\ ~Spared(p, s)
  <2>1. s \in Slot
    BY <1>3
  <2>2. Held(s)' = Held(s)
    <3> SUFFICES ASSUME Held(s)' # Held(s) PROVE FALSE
      OBVIOUS
    <3>1. PICK row \in Mine(cmd[p], R) : Held(s)' = row.rec
      BY <2>1, HeldStep DEF Held
    <3> QED
      BY <1>4, <3>1
  <2>3. ~Spared(p, s)
    BY <1>1, <1>2 DEF Spared
  <2> QED
    BY <2>1, <2>2, <2>3
<1>6. Doomed(p, s)
  BY <1>3, <1>5 DEF Clears
<1>7. CASE at[p] = "ready"
  <2>1. todo[p] # <<>> /\ (Put(p) \/ Sweep(p) \/ Forget(p))
    BY <1>2, <1>7 DEF Run, Put, Load, Open, Write, Replace, Sweep, Forget
  <2>2. todo[p] \in Seq(StepsOf(Mine(c, R)))
    BY <1>3 DEF Works
  <2>3. PICK step \in Rng(todo[p]) :
          \/ step.op = "write" /\ \E row \in step.rows : row.slot = s
          \/ /\ step.op = "sweep" /\ step.of = c.of
             /\ s \in AgentKeys \cup OrcidKeys /\ s.kind \in step.kinds
    BY <1>6, <1>7 DEF Doomed
  <2>4. ASSUME NEW rows \in SUBSET Mine(c, R),
               todo' = [todo EXCEPT ![p] = WriteAll(rows) \o Tail(@)]
        PROVE  /\ step \in Rng(Tail(todo[p])) \/ step = Head(todo[p])
               /\ step \in Rng(Tail(todo[p])) => Doomed(p, s)'
               /\ (\E row \in rows : row.slot = s) => Doomed(p, s)'
    <3> DEFINE t == todo[p]
    <3>1. t \in Seq(StepsOf(Mine(c, R))) /\ t # <<>>
      BY <2>1, <2>2
    <3>2. todo'[p] = WriteAll(rows) \o Tail(t)
      BY <2>4 DEF Shapes
    <3> HIDE DEF t
    <3>3. rows \in SUBSET Mine(cmd[p], R) /\ t \in Seq(StepsOf(Mine(cmd[p], R)))
      BY <2>4, <3>1
    <3>4. /\ Rng(t) = {Head(t)} \cup Rng(Tail(t))
          /\ Rng(todo'[p]) = (IF rows = {} THEN {} ELSE {[op |-> "write", rows |-> rows]}) \cup Rng(Tail(t))
      BY <3>1, <3>2, <3>3, RestOfSteps
    <3>5. step \in Rng(Tail(t)) => Doomed(p, s)'
      BY <1>2, <2>3, <3>4 DEF Doomed
    <3>6. ASSUME NEW row \in rows, row.slot = s PROVE Doomed(p, s)'
      BY <3>4, <3>6 DEF Doomed
    <3> QED
      BY <2>3, <3>4, <3>5, <3>6 DEF t
  <2>5. CASE Put(p)
    <3>1. PICK r \in Head(todo[p]).rows :
            /\ keyring' = IF backend = "keyring" THEN [keyring EXCEPT ![r.slot] = r.rec] ELSE keyring
            /\ todo' = [todo EXCEPT ![p] = WriteAll(Head(@).rows \ {r}) \o Tail(@)]
            /\ IF Indexed(r.slot)
                 THEN at' = [at EXCEPT ![p] = "load"] /\ doing' = [doing EXCEPT ![p] = r]
                 ELSE UNCHANGED <<at, doing>>
      BY <2>5 DEF Put
    <3>2. Head(todo[p]).op = "write" /\ Head(todo[p]).rows \in SUBSET Mine(c, R)
      BY <2>5, HeadWrites, StepKinds DEF Put
    <3>3. Head(todo[p]).rows \ {r} \in SUBSET Mine(c, R) /\ r \in Mine(c, R)
      BY <3>1, <3>2
    <3>4. CASE backend = "file" /\ r.slot = s
      BY <1>1, <3>1, <3>4 DEF Indexed, Shapes, Doomed
    <3>5. CASE backend = "keyring" /\ r.slot = s
      <4>1. keyring'[s] = None
        BY <1>4, <1>5, <3>1, <3>3, <3>5 DEF StoreHolds, Filled, Contents
      <4> QED
        BY <1>1, <3>5, <4>1 DEF Held
    <3>6. CASE r.slot # s
      <4>1. step = Head(todo[p]) => \E row \in Head(todo[p]).rows \ {r} : row.slot = s
        BY <2>3, <3>2, <3>6
      <4> HIDE DEF c
      <4> QED
        BY <2>4, <3>1, <3>3, <4>1
    <3> QED
      BY <3>4, <3>5, <3>6 DEF StoreHolds
  <2>6. CASE Sweep(p)
    <3> DEFINE sweep == Head(todo[p])
               named == {x \in AgentKeys \cup OrcidKeys : x.kind \in sweep.kinds /\ Loaded[x] # None}
               known == {x \in OrcidKeys : "orcid_key" \in sweep.kinds /\ x.of = sweep.of}
               rows == Forgotten(named \cup known)
    <3>1. todo' = [todo EXCEPT ![p] = WriteAll(rows) \o Tail(@)] /\ sweep.op = "sweep"
      BY <2>6 DEF Sweep
    <3>2. rows \in SUBSET Mine(c, R)
      <4>1. \A x \in OrcidKeys : x.kind = "orcid_key"
        BY DEF OrcidKeys, OrcidKey
      <4>2. \A x \in AgentKeys \cup OrcidKeys : x.kind \in sweep.kinds => Gone(x) \in Mine(c, R)
        BY <2>6, HeadWrites, StepKinds DEF Sweep
      <4> QED
        BY <4>1, <4>2 DEF Forgotten, Gone
    <3>3. ASSUME step = sweep PROVE s \in named \cup known
      <4>1. s \in AgentKeys \cup OrcidKeys /\ s.kind \in sweep.kinds /\ sweep.of = c.of
        BY <2>3, <3>1, <3>3
      <4>2. CASE backend = "file"
        BY <1>5, <4>1, <4>2 DEF Held
      <4>3. CASE backend = "keyring"
        <5>1. s \notin Bearers
          BY <4>1 DEF AgentKeys, AgentKey, OrcidKeys, OrcidKey, Bearers, Bearer, Tiers
        <5>2. s.of = c.of
          BY <1>5, <4>3, <5>1 DEF Spared
        <5>3. s \notin AgentKeys
          BY <1>3, <5>2, NamesApart DEF AgentKeys, AgentKey
        <5>4. s \in OrcidKeys /\ s.kind = "orcid_key"
          BY <4>1, <5>3 DEF OrcidKeys, OrcidKey
        <5> QED
          BY <4>1, <5>2, <5>4
      <4> QED
        BY <4>2, <4>3 DEF StoreHolds
    <3>4. step = sweep => \E row \in rows : row.slot = s
      <4> HIDE DEF named, known, sweep
      <4>1. \A x \in named \cup known : Gone(x) \in rows
        BY DEF Forgotten, Gone
      <4>2. Gone(s).slot = s
        BY DEF Gone
      <4> QED
        BY <3>3, <4>1, <4>2
    <3> HIDE DEF rows, c
    <3> QED
      BY <2>4, <3>1, <3>2, <3>4
  <2>7. CASE Forget(p)
    <3>1. PICK rows \in {Forgotten({Head(todo[p]).slot}), {}} :
            todo' = [todo EXCEPT ![p] = WriteAll(rows) \o Tail(@)]
      BY <2>7 DEF Forget
    <3>2. Gone(Head(todo[p]).slot) \in Mine(c, R) /\ Head(todo[p]).op = "forget"
      BY <2>7, HeadWrites, StepKinds DEF Forget
    <3>3. rows \in SUBSET Mine(c, R)
      BY <3>2 DEF Forgotten, Gone
    <3>4. step # Head(todo[p])
      BY <2>3, <3>2
    <3> HIDE DEF c
    <3> QED
      BY <2>4, <3>1, <3>3, <3>4
  <2> QED
    BY <2>1, <2>5, <2>6, <2>7
<1>8. CASE at[p] # "ready"
  <2>1. todo'[p] = todo[p]
    BY <1>2, <1>8 DEF Run, Put, Load, Open, Write, Replace, Quit, Sweep, Forget, Return, Shapes
  <2>2. CASE backend = "file" /\ doing[p].slot = s
    <3>1. CASE Replace(p)
      <4>1. tmp = data[p] /\ data[p] = [file EXCEPT ![s] = None] /\ file \in Filled(R)
        <5>1. doing[p].rec = None
          BY <1>3, <1>4, <1>8 DEF Works
        <5> QED
          BY <2>2, <3>1, <5>1 DEF Exact, CopyExact, Replace, StoreHolds
      <4>2. tmp # None /\ tmp # Torn /\ tmp[s] = None
        BY <1>5, <2>2, <4>1, ConstantsAssumption DEF StoreHolds, Filled, Contents
      <4>3. Loaded'[s] = None
        BY <3>1, <4>2 DEF Replace, Loaded
      <4> QED
        BY <1>1, <2>2, <4>3 DEF Held
    <3>2. CASE Load(p) \/ Open(p) \/ Write(p)
      BY <1>1, <2>2, <3>2 DEF Load, Open, Write, Shapes, Doomed
    <3> QED
      BY <1>2, <1>8, <3>1, <3>2 DEF Run, Put, Sweep, Forget
  <2>3. CASE ~(backend = "file" /\ doing[p].slot = s)
    BY <1>2, <1>6, <2>1, <2>3 DEF Doomed
  <2> QED
    BY <2>2, <2>3
<1> QED
  BY <1>7, <1>8

\* A logout begins with everything it is about still to clear.
LEMMA LogoutBegins ==
  ASSUME HoldInv, NEW p \in Processes, cmd[p] = None, NEW kind \in Tiers \cup {None}, Logout(p, kind)
  PROVE  Clears(p)'
<1> DEFINE bearers == IF kind = None THEN Bearers ELSE {Bearer(kind)}
           kinds == (IF kind \in {None, "agent"} THEN {"agent_key"} ELSE {})
                    \cup (IF kind \in {None, "orcid"} THEN {"orcid_key"} ELSE {})
           self == IF Held(Bearer("orcid")) = None THEN None ELSE Self
           slots == bearers \cup {s \in AgentKeys \cup OrcidKeys : s.kind \in kinds}
           c == [does |-> "logout", slots |-> slots, of |-> self]
           sweep == [op |-> "sweep", of |-> self, kinds |-> kinds]
           write == [op |-> "write", rows |-> Forgotten(bearers)]
           rest == IF kinds = {} THEN <<>> ELSE <<sweep>>
<1>1. Begin(p, "logout", slots, self, WriteAll(Forgotten(bearers)) \o rest)
  BY DEF Logout
<1>2. bearers # {} /\ Forgotten(bearers) # {}
  BY DEF Bearers, Tiers, Forgotten
<1>3. WriteAll(Forgotten(bearers)) = <<write>>
  BY <1>2 DEF WriteAll
<1>4. self \in Orcids \cup {None}
  BY SelfIsOrcid DEF HoldInv
<1>5. ASSUME NEW s \in bearers PROVE \E row \in write.rows : row.slot = s
  <2> HIDE DEF bearers
  <2>1. Gone(s) \in write.rows /\ Gone(s).slot = s
    BY DEF Forgotten, Gone
  <2> QED
    BY <2>1
<1>6. cmd'[p].of = self /\ cmd'[p].slots = slots /\ todo'[p] = <<write>> \o rest
  BY <1>1, <1>3 DEF Begin, Shapes, HoldInv
<1>7. write \in Rng(todo'[p]) /\ (kinds # {} => sweep \in Rng(todo'[p]))
  <2> HIDE DEF write, sweep, kinds
  <2>1. CASE kinds = {}
    <3>1. todo'[p] = <<write>>
      BY <1>6, <2>1
    <3> QED
      BY <2>1, <3>1 DEF Rng
  <2>2. CASE kinds # {}
    <3> DEFINE S == {write, sweep}
    <3>1. todo'[p] = <<write>> \o <<sweep>>
      BY <1>6, <2>2
    <3>2. <<write>> \in Seq(S) /\ <<sweep>> \in Seq(S)
      OBVIOUS
    <3>3. Rng(<<write>>) = {write} /\ Rng(<<sweep>>) = {sweep}
      BY DEF Rng
    <3> HIDE DEF S
    <3>4. Rng(todo'[p]) = Rng(<<write>>) \cup Rng(<<sweep>>)
      BY <3>1, <3>2, RngOfConcat
    <3> QED
      BY <3>3, <3>4
  <2> QED
    BY <2>1, <2>2
<1>8. ASSUME NEW s \in slots PROVE Doomed(p, s)'
  <2>1. CASE s \in bearers
    <3>1. write.op = "write"
      OBVIOUS
    <3> HIDE DEF write, bearers
    <3> QED
      BY <1>5, <1>7, <2>1, <3>1 DEF Doomed
  <2>2. CASE s \in AgentKeys \cup OrcidKeys /\ s.kind \in kinds
    <3>1. sweep.op = "sweep" /\ sweep.of = cmd'[p].of /\ s.kind \in sweep.kinds /\ sweep \in Rng(todo'[p])
      BY <1>6, <1>7, <2>2
    <3> HIDE DEF sweep
    <3> QED
      BY <2>2, <3>1 DEF Doomed
  <2> QED
    BY <2>1, <2>2
<1> HIDE DEF slots, self
<1> QED
  BY <1>4, <1>6, <1>8 DEF Clears

LEMMA CarefulInductive ==
  ASSUME Disciplined, HoldInv, CarefulInv, [Next]_vars
  PROVE  CarefulInv'
<1>1. Apart'
  BY ApartStep DEF HoldInv, CarefulInv
<1>2. PICK R : R = Fit
  OBVIOUS
<1>3. R \in SUBSET Row /\ Shapes /\ StoreHolds(R) /\ \A q \in Processes : Works(q, R)
  BY <1>2 DEF HoldInv, Fit
<1>4. Apart /\ Exact /\ \A p \in Processes : Clears(p)
  BY DEF CarefulInv
<1>5. CASE UNCHANGED <<backend, store, local>>
  BY <1>1, <1>4, <1>5
  DEF CarefulInv, Exact, CopyExact, Clears, Spared, Doomed, Held, Loaded, store, local
<1>6. ASSUME NEW p \in Processes, Run(p) \/ Crash(p) PROVE CarefulInv'
  <2>1. Exact'
    BY <1>3, <1>4, <1>6, ExactStep
  <2>2. Clears(p)'
    BY <1>3, <1>4, <1>6, OwnClear
  <2>3. \A q \in Processes : q # p => Clears(q)'
    BY <1>3, <1>4, <1>6, OthersClear
  <2> QED
    BY <1>1, <2>1, <2>2, <2>3 DEF CarefulInv
<1>7. ASSUME NEW p \in Processes, Start(p) PROVE CarefulInv'
  <2>1. PICK does, slots, of, steps : Begin(p, does, slots, of, steps)
    BY <1>7 DEF Start, LoginOrcid, LoginAgent, LoginAnonymous, BindKey, RevokeKey, Logout
  <2>2. UNCHANGED <<backend, store, at, doing, data, fd>>
    BY <2>1 DEF Begin
  <2>3. Exact'
    BY <1>4, <2>2 DEF Exact, CopyExact, store
  <2>4. ASSUME NEW q \in Processes, q # p PROVE Clears(q)'
    <3>1. cmd'[q] = cmd[q] /\ todo'[q] = todo[q]
      BY <1>3, <2>1, <2>4 DEF Begin, Shapes
    <3> QED
      BY <1>4, <2>2, <3>1 DEF Clears, Spared, Doomed, Held, Loaded, store
  <2>5. Clears(p)'
    <3>1. CASE \E kind \in Tiers \cup {None} : Logout(p, kind)
      BY <1>7, <3>1, LogoutBegins DEF Start
    <3>2. CASE ~(\E kind \in Tiers \cup {None} : Logout(p, kind))
      <4>1. \E d \in {"login", "bind", "revoke"} : \E ss, o, ts : Begin(p, d, ss, o, ts)
        BY <1>7, <3>2 DEF Start, LoginOrcid, LoginAgent, LoginAnonymous, BindKey, RevokeKey
      <4>2. cmd'[p].does # "logout"
        BY <1>3, <4>1 DEF Begin, Shapes
      <4> QED
        BY <4>2 DEF Clears
    <3> QED
      BY <3>1, <3>2
  <2> QED
    BY <1>1, <2>3, <2>4, <2>5 DEF CarefulInv
<1> QED
  BY <1>5, <1>6, <1>7
  DEF Next, Annotate, Submit, Call, Send, Serve, Receive, Verify, Reject, Admit, Accept, Expire, Rotate, vars

LEMMA CarefulBegins == Init => CarefulInv
<1> SUFFICES ASSUME Init PROVE CarefulInv
  OBVIOUS
<1>1. file # Torn
  BY ConstantsAssumption DEF Init, StoreInit, Empty, Contents
<1>2. \A p \in Processes : CopyExact(p) /\ Clears(p)
  BY DEF Init, StoreInit, CopyExact, Clears
<1> QED
  BY <1>1, <1>2 DEF Init, StoreInit, CarefulInv, Apart, Exact

\* On a machine where commands overlap as a careful user's may, whatever is killed in
\* between: once a logout has done all its steps, what it was about is gone, but for the
\* keys of other identities that a keyring does not list.
THEOREM LogoutLeavesNothing == ASSUME Disciplined PROVE Spec => []LogoutClears
<1>1. Init => HoldInv /\ CarefulInv
  BY HoldBegins, CarefulBegins
<1>2. HoldInv /\ CarefulInv /\ [Next]_vars => (HoldInv /\ CarefulInv)'
  BY HoldInductive, CarefulInductive
<1>3. CarefulInv => LogoutClears
  BY DEF CarefulInv, Clears, Spared, Doomed, Rng, Done, LogoutClears
<1> QED
  BY <1>1, <1>2, <1>3, PTL DEF Spec

\* On such a machine a credential appears, changes or goes only while a command about it
\* runs: none brings back an older state with its copy of the file.
THEOREM NothingComesBack == ASSUME Disciplined PROVE Spec => OnlyOwnSlot
<1> DEFINE Own == \A s \in Slot :
             Held(s)' # Held(s) => \E p \in Processes : cmd[p] # None /\ s \in cmd[p].slots
<1>1. Init => HoldInv /\ CarefulInv
  BY HoldBegins, CarefulBegins
<1>2. HoldInv /\ CarefulInv /\ [Next]_vars => (HoldInv /\ CarefulInv)'
  BY HoldInductive, CarefulInductive
<1>3. HoldInv /\ CarefulInv /\ [Next]_vars => [Own]_vars
  <2> SUFFICES ASSUME HoldInv, CarefulInv, Next, NEW s \in Slot, Held(s)' # Held(s)
               PROVE  \E p \in Processes : cmd[p] # None /\ s \in cmd[p].slots
    OBVIOUS
  <2>1. PICK R : R = Fit
    OBVIOUS
  <2>2. R \in SUBSET Row /\ Shapes /\ StoreHolds(R) /\ \A q \in Processes : Works(q, R)
    BY <2>1 DEF HoldInv, Fit
  <2>3. PICK p \in Processes : Run(p) \/ Crash(p)
    <3>1. ~(UNCHANGED <<backend, store>>)
      BY DEF Held, Loaded, store
    <3>2. \A p \in Processes : ~Start(p)
      BY <3>1 DEF Start, LoginOrcid, LoginAgent, LoginAnonymous, BindKey, RevokeKey, Logout, Begin
    <3> QED
      BY <3>1, <3>2
      DEF Next, Annotate, Submit, Call, Send, Serve, Receive, Verify, Reject, Admit, Accept, Expire, Rotate
  <2>4. PICK row \in Mine(cmd[p], R) : row.slot = s
    BY <2>2, <2>3, HeldStep DEF CarefulInv
  <2>5. cmd[p] # None
    BY <2>2, <2>3, ActiveRuns
  <2> QED
    BY <2>4, <2>5 DEF Mine
<1>4. [][Own]_vars => OnlyOwnSlot
  BY PTL DEF OnlyOwnSlot
<1> QED
  BY <1>1, <1>2, <1>3, <1>4, PTL DEF Spec
=============================================================================
