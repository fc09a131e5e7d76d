-------------------------------- MODULE Retries --------------------------------
(***************************************************************************)
(* The HTTP client's retry loop (src/src/rrxiv/client/client.py and        *)
(* async_client.py, _json; client/retry.py) against the server's sliding   *)
(* rate window (server/deps.py, require_identity; record_request of both   *)
(* stores), for clients that share one bearer token.                       *)
(*                                                                         *)
(* The server counts in whole seconds, and a step of the clock is one. The *)
(* client waits in fractions: Quarter of them make a second. Times are     *)
(* kept as ages and as what is left to wait, so that no clock grows.       *)
(***************************************************************************)
EXTENDS Naturals, FiniteSets, FiniteSetsExt, TLC

CONSTANTS
  Clients,
  Window,                        \* seconds the rate window looks back (60)
  ReadRpm, WriteRpm,             \* rate_limit_*_rpm
  MaxRetries, BackoffInitial, BackoffMax, TotalTimeout,  \* RetryPolicy, in quarter seconds
  ProxyRetryAfter,               \* what a proxy may say in a 5xx (0: nothing)
  MaxCalls                       \* calls they make

ASSUME RetriesAssumption ==
  /\ {Window, ReadRpm, WriteRpm, MaxRetries, BackoffInitial, BackoffMax, TotalTimeout, MaxCalls} \subseteq Nat
  /\ ProxyRetryAfter \subseteq Nat

Quarter == 4
Kinds == {"read", "write"}

VARIABLES
  window,    \* rate_window of the token: how many requests of each age
  served,    \* those among them that were let through, by kind (history)
  at,        \* idle, sent, answered, asleep
  kind, answer,
  budget,    \* RetryBudget of the call
  wake,      \* seconds of sleep left
  outcome,   \* how the client's last call ended
  calls,     \* calls made so far
  retry5xx,  \* RetryPolicy.retry_on_5xx, off by default
  rows,      \* rows the call has stored
  recorded,  \* the server has the call's idempotency key
  left,      \* the call has timed out, its request is still with the server
  past       \* how many requests of earlier calls are

vars == <<window, served, at, kind, answer, budget, wake, outcome, calls, retry5xx, rows, recorded, left, past>>
server == <<window, served, rows, recorded>>
client == <<at, answer, budget, wake, outcome>>

Ages == 0 .. Window + 1
NoAnswer == [status |-> "none", after |-> 0]
Fresh == [attempts |-> 0, spent |-> 0]

Init ==
  /\ window = [a \in Ages |-> 0] /\ served = [k \in Kinds |-> [a \in Ages |-> 0]]
  /\ at = [c \in Clients |-> "idle"] /\ kind = [c \in Clients |-> "read"]
  /\ answer = [c \in Clients |-> NoAnswer] /\ budget = [c \in Clients |-> Fresh]
  /\ wake = [c \in Clients |-> 0] /\ outcome = [c \in Clients |-> "none"]
  /\ calls = 0 /\ retry5xx \in BOOLEAN /\ rows = [c \in Clients |-> 0]
  /\ recorded = [c \in Clients |-> FALSE] /\ left = [c \in Clients |-> FALSE] /\ past = 0

-----------------------------------------------------------------------------
(* retry.py *)

\* In quarters: a Retry-After, capped, or else the backoff of that attempt, capped
\* and then moved by as much as a quarter of itself.
Backoff(attempt) == LET b == BackoffInitial * 2 ^ (attempt - 1) IN IF b < BackoffMax THEN b ELSE BackoffMax
ComputeWait(attempt, after) ==
  IF after > 0 THEN {IF after < BackoffMax THEN after ELSE BackoffMax}
  ELSE {(j * Backoff(attempt)) \div 4 : j \in {3, 5}}

IsRetryableAny(status) == status \in {"429", "5xx"} \* mutant: the policy is not asked
IsRetryableStatus(status) == status = "429" \/ (status = "5xx" /\ retry5xx)

\* RetryBudget.
SpendNothing(b, wait) == b \* mutant
Spend(b, wait) == [attempts |-> b.attempts + 1, spent |-> b.spent + wait]
CanRetry(b, wait) == b.attempts < MaxRetries /\ b.spent + wait <= TotalTimeout

-----------------------------------------------------------------------------
(* The client *)

\* A write takes its idempotency key before the loop: one key for all its attempts.
Call(c) ==
  /\ at[c] = "idle" /\ calls < MaxCalls
  /\ \E k \in Kinds : kind' = [kind EXCEPT ![c] = k]
  /\ at' = [at EXCEPT ![c] = "sent"]
  /\ calls' = calls + 1
  /\ outcome' = [outcome EXCEPT ![c] = "none"]
  /\ rows' = [rows EXCEPT ![c] = 0] /\ recorded' = [recorded EXCEPT ![c] = FALSE]
  /\ left' = [left EXCEPT ![c] = FALSE] /\ past' = IF left[c] THEN past + 1 ELSE past
  /\ UNCHANGED <<window, served, answer, budget, wake, retry5xx>>

End(c, how) ==
  /\ at' = [at EXCEPT ![c] = "idle"]
  /\ outcome' = [outcome EXCEPT ![c] = how]
  /\ answer' = [answer EXCEPT ![c] = NoAnswer]
  /\ budget' = [budget EXCEPT ![c] = Fresh]
  /\ UNCHANGED wake

\* Sleeping, to spend once it is over; the clock may cross one second more than the
\* wait has.
Sleep(c, wait) ==
  /\ at' = [at EXCEPT ![c] = "asleep"]
  /\ \E more \in {0, 1} : wake' = [wake EXCEPT ![c] = wait \div Quarter + more]
  /\ budget' = [budget EXCEPT ![c] = Spend(@, wait)]
  /\ answer' = [answer EXCEPT ![c] = NoAnswer]
  /\ UNCHANGED outcome

\* One turn of the loop in _json, from the response on.
React(c) ==
  /\ at[c] = "answered"
  /\ LET a == answer[c]
         how == IF a.status = "429" THEN "limited" ELSE "failed"
     IN \/ a.status = "2xx" /\ End(c, "ok")
        \/ a.status # "2xx" /\ ~IsRetryableStatus(a.status) /\ End(c, how)
        \/ /\ a.status # "2xx" /\ IsRetryableStatus(a.status)
           /\ \E wait \in ComputeWait(budget[c].attempts + 1, a.after) :
                IF CanRetry(budget[c], wait) THEN Sleep(c, wait) ELSE End(c, how)
  /\ UNCHANGED <<server, kind, calls, retry5xx, left, past>>

Resend(c) ==
  /\ at[c] = "asleep" /\ wake[c] = 0
  /\ at' = [at EXCEPT ![c] = "sent"]
  /\ UNCHANGED <<server, kind, answer, budget, wake, outcome, calls, retry5xx, left, past>>

\* A timeout or a broken connection is an exception of httpx's, and not retried.  The
\* answer may be lost, or may not be there yet: the handler then runs on for nobody.
Lose(c) ==
  /\ at[c] \in {"sent", "answered"}
  /\ End(c, "lost")
  /\ left' = [left EXCEPT ![c] = at[c] = "sent" /\ kind[c] = "write"]
  /\ UNCHANGED <<server, kind, calls, retry5xx, past>>

-----------------------------------------------------------------------------
(* The server *)

InWindowShort(age) == age < Window \* mutant
InWindow(age) == age <= Window

\* record_request: the request is counted, whatever becomes of it.
Count(w) == MapThenSumSet(LAMBDA a : w[a], {a \in Ages : InWindow(a)})
Recorded == [window EXCEPT ![0] = @ + 1]
RpmFor(k) == IF k = "read" THEN ReadRpm ELSE WriteRpm

Answer(c, status, after) ==
  /\ at' = [at EXCEPT ![c] = "answered"]
  /\ answer' = [answer EXCEPT ![c] = [status |-> status, after |-> after]]

\* require_identity, which no route a client reads by asks for.
TurnAway ==
  /\ window' = Recorded
  /\ Count(window') > RpmFor("write")
  /\ UNCHANGED served
Admit ==
  /\ window' = Recorded
  /\ Count(window') <= RpmFor("write")
  /\ served' = [served EXCEPT !["write"][0] = @ + 1]

\* POST /annotations: a key that is recorded gets its answer again.
Store(c) ==
  /\ rows' = [rows EXCEPT ![c] = IF recorded[c] THEN @ ELSE @ + 1]
  /\ recorded' = [recorded EXCEPT ![c] = TRUE]

\* The handler's 5xx: nothing is stored, or the row is and its key is not recorded yet.
StoreInPart(c) ==
  /\ rows' \in {rows} \cup (IF recorded[c] THEN {} ELSE {[rows EXCEPT ![c] = @ + 1]})
  /\ UNCHANGED recorded

Posted(c) ==
  /\ at[c] = "sent" /\ kind[c] = "write"
  /\ UNCHANGED <<kind, budget, wake, outcome, calls, retry5xx, left, past>>

\* 429 says to come back in a second.
Limit(c) == Posted(c) /\ TurnAway /\ Answer(c, "429", Quarter) /\ UNCHANGED <<rows, recorded>>
Write(c) == Posted(c) /\ Admit /\ Answer(c, "2xx", 0) /\ Store(c)
Fail(c) == Posted(c) /\ Admit /\ Answer(c, "5xx", 0) /\ StoreInPart(c)

\* The same for a client that has stopped waiting, and for one that has called again since.
RunOn(c) ==
  /\ left[c] /\ left' = [left EXCEPT ![c] = FALSE]
  /\ \/ TurnAway /\ UNCHANGED <<rows, recorded>>
     \/ Admit /\ (Store(c) \/ StoreInPart(c))
  /\ UNCHANGED <<client, kind, calls, retry5xx, past>>
RunPast ==
  /\ past > 0 /\ past' = past - 1
  /\ TurnAway \/ Admit
  /\ UNCHANGED <<client, kind, calls, retry5xx, rows, recorded, left>>

\* GET /papers and the client's other reads: nobody is named, nothing is counted.
Read(c) ==
  /\ at[c] = "sent" /\ kind[c] = "read"
  /\ Answer(c, "2xx", 0)
  /\ UNCHANGED <<server, kind, budget, wake, outcome, calls, retry5xx, left, past>>

\* The 5xx of a proxy in between, with a Retry-After or without: the server saw nothing.
ProxyFail(c) ==
  /\ at[c] = "sent"
  /\ \E after \in ProxyRetryAfter : Answer(c, "5xx", after)
  /\ UNCHANGED <<server, kind, budget, wake, outcome, calls, retry5xx, left, past>>

\* GET /auth/orcid/keys of a command with the same token, sent without the loop above: the
\* one read that is counted, in the bucket of the writes and against the reads' limit.
ListKeys ==
  /\ calls < MaxCalls /\ calls' = calls + 1
  /\ window' = Recorded
  /\ served' = IF Count(window') <= RpmFor("read") THEN [served EXCEPT !["read"][0] = @ + 1] ELSE served
  /\ UNCHANGED <<client, kind, retry5xx, rows, recorded, left, past>>

\* A second passes, for everyone; a client whose sleep is over resends before the next.
Older(f) == [a \in Ages |-> IF a = 0 THEN 0 ELSE f[a - 1]]
Tick ==
  /\ \A c \in Clients : at[c] = "asleep" => wake[c] > 0
  /\ window' = Older(window)
  /\ served' = [k \in Kinds |-> Older(served[k])]
  /\ wake' = [c \in Clients |-> IF wake[c] > 0 THEN wake[c] - 1 ELSE 0]
  /\ UNCHANGED <<at, kind, answer, budget, outcome, calls, retry5xx, rows, recorded, left, past>>

Handle(c) == Limit(c) \/ Write(c) \/ Fail(c) \/ Read(c) \/ ProxyFail(c)
ClientStep(c) == Call(c) \/ React(c) \/ Resend(c) \/ Lose(c)
Next == Tick \/ ListKeys \/ RunPast \/ \E c \in Clients : ClientStep(c) \/ Handle(c) \/ RunOn(c)

\* A request is answered or times out, a loop goes on, and time passes.
Fairness ==
  /\ WF_vars(Tick)
  /\ \A c \in Clients : WF_vars(React(c) \/ Resend(c)) /\ WF_vars(Handle(c) \/ Lose(c))
Spec == Init /\ [][Next]_vars /\ Fairness

-----------------------------------------------------------------------------
(* Properties *)

TypeOK ==
  /\ window \in [Ages -> Nat] /\ served \in [Kinds -> [Ages -> Nat]]
  /\ at \in [Clients -> {"idle", "sent", "answered", "asleep"}] /\ kind \in [Clients -> Kinds]
  /\ answer \in [Clients -> [status : {"none", "2xx", "429", "5xx"}, after : Nat]]
  /\ budget \in [Clients -> [attempts : 0 .. MaxRetries, spent : 0 .. TotalTimeout]]
  /\ wake \in [Clients -> Nat] /\ calls \in 0 .. MaxCalls
  /\ outcome \in [Clients -> {"none", "ok", "limited", "failed", "lost"}]
  /\ rows \in [Clients -> Nat]
  /\ recorded \in [Clients -> BOOLEAN] /\ left \in [Clients -> BOOLEAN] /\ past \in Nat

\* However the clients of a token share it and retry, no more of their reads and of their
\* writes get through in any sixty seconds than the limit says: timestamps are cut to
\* seconds, so that those sixty may hold sixty-one of them.
ServedWithinRpm ==
  \A k \in Kinds : MapThenSumSet(LAMBDA a : served[k][a], 0 .. Window) <= RpmFor(k)

\* With the default policy a call tells the truth: it wrote its row once if it came
\* back, never if it was turned away for the rate, at most once in any case. That 5xx is not
\* retried is what this rests on: the key is recorded after the row.
OutcomeTrue ==
  ~retry5xx => \A c \in Clients :
    /\ rows[c] <= 1
    /\ kind[c] = "write" /\ outcome[c] = "ok" => rows[c] = 1
    /\ outcome[c] = "limited" => rows[c] = 0

\* A call comes to an end, even if the token is over its limit for good because the
\* retries that are turned away are counted too.
CallsEnd == \A c \in Clients : at[c] = "sent" ~> at[c] = "idle"
=============================================================================
