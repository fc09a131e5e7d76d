----------------------------- MODULE Credentials -----------------------------
(***************************************************************************)
(* One machine's credential store: src/src/rrxiv/cli/credentials.py.       *)
(*                                                                         *)
(* Secrets are in the system's keyring or in a JSON file; with a keyring   *)
(* the file is an index of bearers and agent keys, without the secrets.    *)
(* Every `rrxiv' command is a process of its own and nothing locks the     *)
(* file: _file_update reads it, changes its copy, writes that to one       *)
(* temporary file, shared by all processes, and renames that over the file. *)
(*                                                                         *)
(* A command is a sequence of steps (`todo'), which SignedWrites gives it. *)
(* One server: its rows in the file are to another server's what rows of   *)
(* one kind are to those of another.                                       *)
(***************************************************************************)
EXTENDS Naturals, Sequences, FiniteSets

CONSTANTS
  Processes,    \* commands that can run at once
  Orcids,       \* ORCID iDs
  Handles,      \* agent handles
  MaxSecrets,   \* bound on tokens and keys made
  MaxCommands,  \* bound on commands run
  Disciplined,  \* TRUE: commands overlap only as Allowed says
  Torn,         \* a file that is not JSON: empty, or a mix of two writes
  None          \* no row, no file, nothing

Redacted == 0  \* _INDEX_REDACTED
Secrets == 1 .. MaxSecrets

Bearer(kind) == [kind |-> kind, of |-> None]
AgentKey(h) == [kind |-> "agent_key", of |-> h]
OrcidKey(o) == [kind |-> "orcid_key", of |-> o]

Tiers == {"orcid", "agent", "anonymous"}
Bearers == {Bearer(kind) : kind \in Tiers}
AgentKeys == {AgentKey(h) : h \in Handles}
OrcidKeys == {OrcidKey(o) : o \in Orcids}
Slot == Bearers \cup AgentKeys \cup OrcidKeys

Names == Orcids \cup Handles \cup {None}
Record == [who : Names, secret : Secrets \cup {Redacted}]
Contents == [Slot -> Record \cup {None}]
Empty == [s \in Slot |-> None]

Row == [slot : Slot, rec : Record \cup {None}]
Step == [op : {"write"}, rows : SUBSET Row]
        \cup [op : {"sweep"}, of : Names, kinds : SUBSET {"orcid_key", "agent_key"}]
        \cup [op : {"forget"}, slot : OrcidKeys, key : Secrets]
Command == [does : {"login", "logout", "bind", "revoke"}, slots : SUBSET Slot, of : Names]

ASSUME ConstantsAssumption ==
  /\ {MaxSecrets, MaxCommands} \subseteq Nat /\ Disciplined \in BOOLEAN
  /\ Torn \notin Contents \cup {None} /\ None \notin Contents
  /\ None \notin Record /\ None \notin Row /\ None \notin Command
  /\ None \notin Orcids \cup Handles \cup Nat
  /\ Orcids \cap Handles = {}

VARIABLES
  backend,  \* "keyring" or "file"
  keyring,  \* what the system's keyring holds
  file,     \* credentials.json; absent is Empty
  tmp,      \* credentials.json.tmp
  begun,    \* how many commands were run
  cmd,      \* the command a process runs, the slots it is about
  todo,     \* the steps it has still to take
  at,       \* where it is in a step
  doing,    \* the row it is writing
  data,     \* its copy of the file
  fd        \* where the file it has open for writing is by now

store == <<keyring, file, tmp>>
local == <<begun, cmd, todo, at, doing, data, fd>>

StoreTypeOK ==
  /\ backend \in {"keyring", "file"}
  /\ keyring \in Contents
  /\ file \in Contents \cup {Torn}
  /\ tmp \in Contents \cup {Torn, None}
  /\ begun \in 0 .. MaxCommands
  /\ cmd \in [Processes -> Command \cup {None}]
  /\ todo \in [Processes -> Seq(Step)]
  /\ at \in [Processes -> {"ready", "load", "open", "write", "replace"}]
  /\ doing \in [Processes -> Row \cup {None}]
  /\ data \in [Processes -> Contents]
  /\ fd \in [Processes -> {"tmp", "file", "gone", None}]

StoreInit ==
  /\ backend \in {"keyring", "file"}
  /\ keyring = Empty /\ file = Empty /\ tmp = None
  /\ begun = 0
  /\ cmd = [p \in Processes |-> None]
  /\ todo = [p \in Processes |-> <<>>]
  /\ at = [p \in Processes |-> "ready"]
  /\ doing = [p \in Processes |-> None]
  /\ data = [p \in Processes |-> Empty]
  /\ fd = [p \in Processes |-> None]

-----------------------------------------------------------------------------
\* _file_load: what cannot be read is taken for empty.
Loaded == IF file = Torn THEN Empty ELSE file

\* load_bearer, load_agent_key, load_orcid_key.
Held(s) == IF backend = "keyring" THEN keyring[s] ELSE Loaded[s]

\* The index names who, never the secret.
Entry(rec) ==
  IF backend = "keyring" /\ rec # None THEN [rec EXCEPT !.secret = Redacted] ELSE rec

\* An ORCID key in the keyring is in no index.
Indexed(s) == backend = "keyring" => s \notin OrcidKeys

WriteAll(rows) == IF rows = {} THEN <<>> ELSE <<[op |-> "write", rows |-> rows]>>
Forgotten(slots) == {[slot |-> s, rec |-> None] : s \in slots}

-----------------------------------------------------------------------------
\* What a careful user's machine runs together: with a keyring, commands
\* about different slots; with a file, nothing.
Allowed(slots) ==
  Disciplined =>
    \A q \in Processes : cmd[q] # None => backend = "keyring" /\ cmd[q].slots \cap slots = {}

Begin(p, does, slots, of, steps) ==
  /\ Allowed(slots)
  /\ begun < MaxCommands /\ begun' = begun + 1
  /\ cmd' = [cmd EXCEPT ![p] = [does |-> does, slots |-> slots, of |-> of]]
  /\ todo' = [todo EXCEPT ![p] = steps]
  /\ UNCHANGED <<backend, store, at, doing, data, fd>>

\* store_* and delete_*: the keyring first, the file after it.
Put(p) ==
  /\ at[p] = "ready" /\ todo[p] # <<>> /\ Head(todo[p]).op = "write"
  /\ \E r \in Head(todo[p]).rows :
       /\ keyring' = IF backend = "keyring" THEN [keyring EXCEPT ![r.slot] = r.rec] ELSE keyring
       /\ todo' = [todo EXCEPT ![p] = WriteAll(Head(@).rows \ {r}) \o Tail(@)]
       /\ IF Indexed(r.slot)
            THEN at' = [at EXCEPT ![p] = "load"] /\ doing' = [doing EXCEPT ![p] = r]
            ELSE UNCHANGED <<at, doing>>
  /\ UNCHANGED <<backend, file, tmp, begun, cmd, data, fd>>

\* mutant: deleting a row deletes the server's entry.
LoadPruned(p) ==
  /\ at[p] = "load"
  /\ data' = [data EXCEPT ![p] = IF doing[p].rec = None THEN Empty
                                 ELSE [Loaded EXCEPT ![doing[p].slot] = Entry(doing[p].rec)]]
  /\ at' = [at EXCEPT ![p] = "open"]
  /\ UNCHANGED <<backend, store, begun, cmd, todo, doing, fd>>

\* _file_update: the load and the mutator.
Load(p) ==
  /\ at[p] = "load"
  /\ data' = [data EXCEPT ![p] = [Loaded EXCEPT ![doing[p].slot] = Entry(doing[p].rec)]]
  /\ at' = [at EXCEPT ![p] = "open"]
  /\ UNCHANGED <<backend, store, begun, cmd, todo, doing, fd>>

\* _file_save: write_text truncates, then writes.
Open(p) ==
  /\ at[p] = "open"
  /\ tmp' = Torn
  /\ fd' = [fd EXCEPT ![p] = "tmp"]
  /\ at' = [at EXCEPT ![p] = "write"]
  /\ UNCHANGED <<backend, keyring, file, begun, cmd, todo, doing, data>>

\* Over another's text, of another length, the result may be a mix.
Over(old, new) == IF old \in {new, Torn} THEN {new} ELSE {new, Torn}

Write(p) ==
  /\ at[p] = "write"
  /\ tmp' \in IF fd[p] = "tmp" THEN Over(tmp, data[p]) ELSE {tmp}
  /\ file' \in IF fd[p] = "file" THEN Over(file, data[p]) ELSE {file}
  /\ at' = [at EXCEPT ![p] = "replace"]
  /\ UNCHANGED <<backend, keyring, begun, cmd, todo, doing, data, fd>>

Quit(p) ==
  /\ cmd' = [cmd EXCEPT ![p] = None]
  /\ todo' = [todo EXCEPT ![p] = <<>>]
  /\ at' = [at EXCEPT ![p] = "ready"]
  /\ doing' = [doing EXCEPT ![p] = None]
  /\ data' = [data EXCEPT ![p] = Empty]

\* Whoever has the temporary file open has the file itself open from now on.
Moved(where) ==
  IF where = "tmp" THEN "file" ELSE IF where = "file" THEN "gone" ELSE where

\* chmod and os.replace; another's rename of the shared file makes them raise.
Replace(p) ==
  /\ at[p] = "replace"
  /\ IF tmp = None
       THEN Quit(p) /\ fd' = [fd EXCEPT ![p] = None] /\ UNCHANGED store
       ELSE /\ file' = tmp /\ tmp' = None
            /\ fd' = [q \in Processes |-> IF q = p THEN None ELSE Moved(fd[q])]
            /\ at' = [at EXCEPT ![p] = "ready"]
            /\ doing' = [doing EXCEPT ![p] = None]
            /\ data' = [data EXCEPT ![p] = Empty]
            /\ UNCHANGED <<keyring, cmd, todo>>
  /\ UNCHANGED <<backend, begun>>

\* mutant: only what the file names is deleted.
SweepNamed(p) ==
  /\ at[p] = "ready" /\ todo[p] # <<>> /\ Head(todo[p]).op = "sweep"
  /\ LET named == {s \in AgentKeys \cup OrcidKeys :
                     s.kind \in Head(todo[p]).kinds /\ Loaded[s] # None}
     IN  todo' = [todo EXCEPT ![p] = WriteAll(Forgotten(named)) \o Tail(@)]
  /\ UNCHANGED <<backend, store, begun, cmd, at, doing, data, fd>>

\* _logout_server after the bearers are gone: the keys the file names, and
\* that of the ORCID iD the bearer named.
Sweep(p) ==
  /\ at[p] = "ready" /\ todo[p] # <<>> /\ Head(todo[p]).op = "sweep"
  /\ LET sweep == Head(todo[p])
         named == {s \in AgentKeys \cup OrcidKeys : s.kind \in sweep.kinds /\ Loaded[s] # None}
         known == {s \in OrcidKeys : "orcid_key" \in sweep.kinds /\ s.of = sweep.of}
     IN  todo' = [todo EXCEPT ![p] = WriteAll(Forgotten(named \cup known)) \o Tail(@)]
  /\ UNCHANGED <<backend, store, begun, cmd, at, doing, data, fd>>

\* keys_revoke after the server's answer: the local half, if it is this key's.
Forget(p) ==
  /\ at[p] = "ready" /\ todo[p] # <<>> /\ Head(todo[p]).op = "forget"
  /\ LET s == Head(todo[p]).slot
         mine == Held(s) # None /\ Held(s).secret = Head(todo[p]).key
     IN  todo' = [todo EXCEPT ![p] = WriteAll(IF mine THEN Forgotten({s}) ELSE {}) \o Tail(@)]
  /\ UNCHANGED <<backend, store, begun, cmd, at, doing, data, fd>>

Done(p) == cmd[p] # None /\ at[p] = "ready" /\ todo[p] = <<>>

Return(p) == Done(p) /\ Quit(p) /\ UNCHANGED <<backend, store, begun, fd>>

\* The command is interrupted; what it stored stays. A temporary file that no
\* process has open is as good as none: the next Open truncates it unread.
Crash(p) ==
  /\ cmd[p] # None
  /\ Quit(p) /\ fd' = [fd EXCEPT ![p] = None]
  /\ tmp' = IF \E q \in Processes \ {p} : at[q] \in {"write", "replace"} THEN tmp ELSE None
  /\ UNCHANGED <<backend, keyring, file, begun>>

Run(p) ==
  \/ Put(p) \/ Load(p) \/ Open(p) \/ Write(p) \/ Replace(p)
  \/ Sweep(p) \/ Forget(p) \/ Return(p)
=============================================================================
