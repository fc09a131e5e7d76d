---------------------------- MODULE SignedWrites ----------------------------
(***************************************************************************)
(* Signed writes from both ends: the commands that obtain, use and give up *)
(* tokens and signing keys (cli/login.py, cli/auth.py, cli/submit.py,      *)
(* cli/annotation_post.py), over the machine's store of Credentials, and   *)
(* the server's keys and the middleware that checks every write            *)
(* (server/auth/router.py, server/auth/signature_middleware.py, deps.py).  *)
(*                                                                         *)
(* A secret stands for a token, or for a key pair and the id the server    *)
(* gives it. A write waits at the server wherever it awaits its body, so   *)
(* that keys are revoked and tokens expire while it is on its way.         *)
(***************************************************************************)
EXTENDS Credentials

CONSTANT Requests  \* writes sent

Identity == [kind : {"orcid"}, id : Orcids] \cup [kind : {"agent"}, id : Handles]
            \cup [kind : {"anonymous"}, id : {None}]
BoundKey == [orcid : Orcids, revoked : BOOLEAN]
Signature == [id : Handles \cup Secrets, key : Secrets]
Places == {"sent", "body", "passed", "admitted"}
Request == [at : Places, token : Secrets, sig : Signature \cup {None},
            who : Identity \cup {None}, good : BOOLEAN]

ASSUME ServerAssumption ==
  /\ None \notin Identity /\ None \notin BoundKey /\ None \notin Signature /\ None \notin Request
  /\ Handles \cap Nat = {}

VARIABLES
  minted,     \* how many secrets there are
  tokens,     \* the identity of each token that is good
  orcidKeys,  \* keys bound to ORCID iDs
  agents,     \* registered key of each enrolled handle
  req         \* writes on their way

server == <<minted, tokens, orcidKeys, agents>>
vars == <<backend, store, local, server, req>>

TypeOK ==
  /\ StoreTypeOK
  /\ minted \in 0 .. MaxSecrets
  /\ tokens \in [Secrets -> Identity \cup {None}]
  /\ orcidKeys \in [Secrets -> BoundKey \cup {None}]
  /\ agents \in [Handles -> Secrets \cup {None}]
  /\ req \in [Requests -> Request \cup {None}]

Init ==
  /\ StoreInit
  /\ minted = 0
  /\ tokens = [k \in Secrets |-> None]
  /\ orcidKeys = [k \in Secrets |-> None]
  /\ agents = [h \in Handles |-> None]
  /\ req = [r \in Requests |-> None]

-----------------------------------------------------------------------------
\* Commands.
Save(slot, who, secret) ==
  [op |-> "write", rows |-> {[slot |-> slot, rec |-> [who |-> who, secret |-> secret]]}]

Mint(n) == minted + n <= MaxSecrets /\ minted' = minted + n

LoginOrcid(p, o) ==
  /\ Mint(1)
  /\ tokens' = [tokens EXCEPT ![minted'] = [kind |-> "orcid", id |-> o]]
  /\ Begin(p, "login", {Bearer("orcid")}, None, <<Save(Bearer("orcid"), o, minted')>>)
  /\ UNCHANGED <<orcidKeys, agents, req>>

\* Enrollment, the bearer, the key: in this order.
LoginAgent(p, h) ==
  /\ agents[h] = None
  /\ Mint(2)
  /\ agents' = [agents EXCEPT ![h] = minted']
  /\ tokens' = [tokens EXCEPT ![minted + 1] = [kind |-> "agent", id |-> h]]
  /\ Begin(p, "login", {Bearer("agent"), AgentKey(h)}, None,
           <<Save(Bearer("agent"), h, minted + 1), Save(AgentKey(h), h, minted')>>)
  /\ UNCHANGED <<orcidKeys, req>>

LoginAnonymous(p) ==
  /\ Mint(1)
  /\ tokens' = [tokens EXCEPT ![minted'] = [kind |-> "anonymous", id |-> None]]
  /\ Begin(p, "login", {Bearer("anonymous")}, None,
           <<Save(Bearer("anonymous"), None, minted')>>)
  /\ UNCHANGED <<orcidKeys, agents, req>>

\* The ORCID iD of the bearer the machine holds, and whether the server takes it.
Self == Held(Bearer("orcid")).who
LoggedIn == Held(Bearer("orcid")) # None /\ tokens[Held(Bearer("orcid")).secret] # None

\* mutant: an error of the server is not looked at.
BindKeyUnchecked(p) ==
  /\ Held(Bearer("orcid")) # None
  /\ Mint(1)
  /\ orcidKeys' = IF LoggedIn
                  THEN [orcidKeys EXCEPT ![minted'] = [orcid |-> Self, revoked |-> FALSE]]
                  ELSE orcidKeys
  /\ Begin(p, "bind", {OrcidKey(Self)}, None, <<Save(OrcidKey(Self), Self, minted')>>)
  /\ UNCHANGED <<tokens, agents, req>>

\* bind-key: a new pair, bound at the server, then kept.
BindKey(p) ==
  /\ LoggedIn
  /\ Mint(1)
  /\ orcidKeys' = [orcidKeys EXCEPT ![minted'] = [orcid |-> Self, revoked |-> FALSE]]
  /\ Begin(p, "bind", {OrcidKey(Self)}, None, <<Save(OrcidKey(Self), Self, minted')>>)
  /\ UNCHANGED <<tokens, agents, req>>

\* keys revoke: any key of one's own, this machine's or another's.
RevokeKey(p, k) ==
  /\ LoggedIn
  /\ orcidKeys[k] # None /\ orcidKeys[k].orcid = Self
  /\ orcidKeys' = [orcidKeys EXCEPT ![k].revoked = TRUE]
  /\ Begin(p, "revoke", {OrcidKey(Self)}, None,
           <<[op |-> "forget", slot |-> OrcidKey(Self), key |-> k]>>)
  /\ UNCHANGED <<minted, tokens, agents, req>>

\* logout: `kind' is one tier, or None for all of them.
Logout(p, kind) ==
  LET bearers == IF kind = None THEN Bearers ELSE {Bearer(kind)}
      kinds == (IF kind \in {None, "agent"} THEN {"agent_key"} ELSE {})
               \cup (IF kind \in {None, "orcid"} THEN {"orcid_key"} ELSE {})
      self == IF Held(Bearer("orcid")) = None THEN None ELSE Self
  IN  /\ Begin(p, "logout", bearers \cup {s \in AgentKeys \cup OrcidKeys : s.kind \in kinds}, self,
               WriteAll(Forgotten(bearers)) \o
                 IF kinds = {} THEN <<>> ELSE <<[op |-> "sweep", of |-> self, kinds |-> kinds]>>)
      /\ UNCHANGED <<server, req>>

-----------------------------------------------------------------------------
\* _resolve_identity for one tier: an agent without its key cannot write.
Usable(kind) ==
  LET bearer == Held(Bearer(kind))
  IN  bearer # None /\ (kind = "agent" => Held(AgentKey(bearer.who)) # None)

SignatureOf(kind) ==
  LET who == Held(Bearer(kind)).who
      key == IF kind = "agent" THEN Held(AgentKey(who))
             ELSE IF kind = "orcid" THEN Held(OrcidKey(who)) ELSE None
  IN  IF key = None THEN None
      ELSE [id |-> IF kind = "agent" THEN who ELSE key.secret, key |-> key.secret]

Send(r, token, sig) ==
  /\ req' = [req EXCEPT ![r] = [at |-> "sent", token |-> token, sig |-> sig,
                                who |-> None, good |-> FALSE]]
  /\ UNCHANGED <<backend, store, local, server>>

\* rrxiv annotation post, retract, replicate, comment, post-batch.
Annotate(r, kind) ==
  req[r] = None /\ Usable(kind) /\ Send(r, Held(Bearer(kind)).secret, SignatureOf(kind))

\* rrxiv submit: only an agent's signature is attached.
Submit(r, kind) ==
  /\ req[r] = None
  /\ Usable(kind)
  /\ Send(r, Held(Bearer(kind)).secret, IF kind = "agent" THEN SignatureOf(kind) ELSE None)

\* A program that uses RrxivClient, here or on another machine: any token
\* and any key, which need not belong together.
Pairs == {[id |-> k, key |-> k] : k \in {j \in Secrets : orcidKeys[j] # None}}
         \cup {[id |-> h, key |-> agents[h]] : h \in {g \in Handles : agents[g] # None}}

Call(r) ==
  /\ req[r] = None
  /\ \E token \in 1 .. minted, sig \in Pairs \cup {None} : Send(r, token, sig)

-----------------------------------------------------------------------------
\* The server.
\* The key signs for that identity now.
SignsFor(sig, who) ==
  \/ who.kind = "agent" /\ agents[who.id] = sig.key
  \/ who.kind = "orcid" /\ orcidKeys[sig.key] = [orcid |-> who.id, revoked |-> FALSE]

\* __call__ up to _read_body: the bearer decides whether the body is read here.
Receive(r) ==
  /\ req[r] # None /\ req[r].at = "sent"
  /\ LET who == tokens[req[r].token]
         checked == who # None /\ (who.kind = "agent" \/ req[r].sig # None)
     IN  req' = [req EXCEPT ![r].at = IF checked THEN "body" ELSE "passed", ![r].who = who,
                            ![r].good = checked /\ req[r].sig # None /\ SignsFor(req[r].sig, who)]
  /\ UNCHANGED <<backend, store, local, server>>

\* mutant: revoked keys are found as well.
VerifiesRevoked(sig) ==
  IF sig.id \in Secrets
    THEN orcidKeys[sig.id] # None /\ sig.key = sig.id
    ELSE agents[sig.id] = sig.key

\* lookup and the signature itself: by key id, or by handle.
Verifies(sig) ==
  IF sig.id \in Secrets
    THEN orcidKeys[sig.id] # None /\ ~orcidKeys[sig.id].revoked /\ sig.key = sig.id
    ELSE agents[sig.id] = sig.key

\* The signing key belongs to the bearer's identity.
Belongs(sig, who) ==
  \/ who.kind = "agent" /\ sig.id = who.id
  \/ who.kind = "orcid" /\ sig.id \in Secrets /\ orcidKeys[sig.id].orcid = who.id

\* __call__ after the body.
Verify(r) ==
  /\ req[r] # None /\ req[r].at = "body"
  /\ LET sig == req[r].sig
         good == sig # None /\ Verifies(sig) /\ Belongs(sig, req[r].who)
     IN  req' = [req EXCEPT ![r] = IF good THEN [@ EXCEPT !.at = "passed"] ELSE None]
  /\ UNCHANGED <<backend, store, local, server>>

\* A digest that does not match, or a clock out of its window.
Reject(r) ==
  /\ req[r] # None /\ req[r].at = "body"
  /\ req' = [req EXCEPT ![r] = None]
  /\ UNCHANGED <<backend, store, local, server>>

\* require_identity(allow_anonymous=False): the token again.
Admit(r) ==
  /\ req[r] # None /\ req[r].at = "passed"
  /\ LET who == tokens[req[r].token]
         fits == who # None /\ who.kind # "anonymous"
     IN  req' = [req EXCEPT ![r] =
                   IF fits THEN [@ EXCEPT !.at = "admitted", !.who = who] ELSE None]
  /\ UNCHANGED <<backend, store, local, server>>

\* The handler, which may await an upload first, stores the write and answers.
Accept(r) ==
  /\ req[r] # None /\ req[r].at = "admitted"
  /\ req' = [req EXCEPT ![r] = None]
  /\ UNCHANGED <<backend, store, local, server>>

\* A token expires, or is exchanged for another elsewhere.
Expire(token) ==
  /\ tokens[token] # None
  /\ tokens' = [tokens EXCEPT ![token] = None]
  /\ UNCHANGED <<backend, store, local, minted, orcidKeys, agents, req>>

\* POST /auth/agent/{handle}/rotate-key from elsewhere.
Rotate(h) ==
  /\ agents[h] # None
  /\ Mint(1)
  /\ agents' = [agents EXCEPT ![h] = minted']
  /\ UNCHANGED <<backend, store, local, tokens, orcidKeys, req>>

Serve(r) == Receive(r) \/ Verify(r) \/ Reject(r) \/ Admit(r) \/ Accept(r)

Start(p) ==
  /\ cmd[p] = None
  /\ \/ \E o \in Orcids : LoginOrcid(p, o)
     \/ \E h \in Handles : LoginAgent(p, h)
     \/ LoginAnonymous(p)
     \/ BindKey(p)
     \/ \E k \in Secrets : RevokeKey(p, k)
     \/ \E kind \in Tiers \cup {None} : Logout(p, kind)

Next ==
  \/ \E p \in Processes : Start(p)
  \/ \E p \in Processes : (Run(p) \/ Crash(p)) /\ UNCHANGED <<server, req>>
  \/ \E r \in Requests, kind \in Tiers : Annotate(r, kind) \/ Submit(r, kind)
  \/ \E r \in Requests : Call(r) \/ Serve(r)
  \/ \E token \in Secrets : Expire(token)
  \/ \E h \in Handles : Rotate(h)

Spec == Init /\ [][Next]_vars

-----------------------------------------------------------------------------
\* A credential appears, changes or goes only while a command about it runs: no
\* other command's copy of the file brings an older state back (_file_update,
\* "best-effort locking only").
OnlyOwnSlot ==
  [][\A s \in Slot :
       Held(s)' # Held(s) => \E p \in Processes : cmd[p] # None /\ s \in cmd[p].slots]_vars

\* When logout returns, the bearers it is about are gone; with a file the keys too;
\* with a keyring the key of the ORCID iD that was logged in (_logout_server).
LogoutClears ==
  \A p \in Processes :
    Done(p) /\ cmd[p].does = "logout" =>
      \A s \in cmd[p].slots :
        Held(s) # None => backend = "keyring" /\ s \notin Bearers /\ s.of # cmd[p].of

\* A key the machine holds is one the server knows, for that same ORCID iD;
\* an agent key's handle is enrolled (bind_key, login_agent: the server first).
HeldIsBound ==
  /\ \A o \in Orcids : Held(OrcidKey(o)) # None =>
       LET k == Held(OrcidKey(o)).secret IN orcidKeys[k] # None /\ orcidKeys[k].orcid = o
  /\ \A h \in Handles : Held(AgentKey(h)) # None => agents[h] # None

\* A write about to be stored that is signed was signed with a key of the very identity it
\* is stored under, and one that was good when the request arrived; an
\* agent's write is signed (SignatureVerificationMiddleware, require_identity).
AcceptedWasGood ==
  \A r \in Requests :
    req[r] # None /\ req[r].at = "admitted" =>
      IF req[r].sig = None THEN req[r].who.kind = "orcid" ELSE req[r].good
=============================================================================
