----------------------------- MODULE CatalogueProofs -----------------------------
(***************************************************************************)
(* Proofs about Catalogue, for any requests, threads and days: SqliteStore *)
(* does what MemoryStore promises, and the views of one corpus agree.      *)
(***************************************************************************)
EXTENDS Catalogue, FiniteSetTheorems, WellFoundedInduction, TLAPS

LEMMA LeastOf ==
  ASSUME NEW S \in SUBSET Nat, S # {}
  PROVE  \E m \in S : \A k \in S : m <= k
<1> DEFINE R == OpToRel(<, Nat)
<1>1. PICK x \in S : \A y \in S : <<y, x>> \notin R
  <2>1. IsWellFoundedOn(R, Nat)
    BY NatLessThanWellFounded
  <2> HIDE DEF R
  <2> QED
    BY <2>1, WFMin
<1>2. ASSUME NEW y \in S PROVE x <= y
  <2>1. <<y, x>> \notin {p \in Nat \X Nat : p[1] < p[2]}
    BY <1>1 DEF OpToRel
  <2> QED
    BY <2>1
<1> QED
  BY <1>2

-----------------------------------------------------------------------------
(***************************************************************************)
(* The rows of a table. Primary key: no two have one key.                  *)
(***************************************************************************)
Keyed(rows) == \A m, n \in DOMAIN rows : rows[m].key = rows[n].key => m = n
IsTable(rows) == rows \in Seq(ToSet(rows)) /\ Keyed(rows)

LEMMA RowsOf ==
  ASSUME NEW S, NEW rows \in Seq(S)
  PROVE  /\ Len(rows) \in Nat /\ DOMAIN rows = 1 .. Len(rows)
         /\ rows \in Seq(ToSet(rows))
         /\ ToSet(rows) = {rows[n] : n \in 1 .. Len(rows)}
  BY DEF ToSet

\* What Deleted has kept of the first n rows.
KeptRule(rows, keys, N, kept) ==
  kept = [n \in 0 .. N |->
            IF n = 0 THEN << >>
            ELSE IF rows[n].key \in keys THEN kept[n - 1] ELSE Append(kept[n - 1], rows[n])]

LEMMA KeptExists ==
  ASSUME NEW rows, NEW keys, NEW N \in Nat
  PROVE  \E kept : KeptRule(rows, keys, N, kept)
<1> DEFINE Fails == {m \in 0 .. N : ~\E kept : KeptRule(rows, keys, m, kept)}
<1> SUFFICES ASSUME Fails # {} PROVE FALSE
  <2>1. N \notin Fails => \E kept : KeptRule(rows, keys, N, kept)
    OBVIOUS
  <2> HIDE DEF Fails
  <2> QED
    BY <2>1
<1>1. PICK m \in Fails : \A k \in Fails : m <= k
  <2>1. Fails \in SUBSET Nat
    OBVIOUS
  <2> HIDE DEF Fails
  <2> QED
    BY <2>1, LeastOf
<1>2. CASE m = 0
  <2> DEFINE kept == [n \in 0 .. 0 |-> << >>]
  <2>1. KeptRule(rows, keys, 0, kept)
    BY DEF KeptRule
  <2> QED
    BY <1>1, <1>2, <2>1
<1>3. CASE m # 0
  <2>1. m \in Nat /\ m - 1 \in 0 .. N /\ m - 1 \notin Fails
    BY <1>1, <1>3
  <2>2. PICK kept : KeptRule(rows, keys, m - 1, kept)
    BY <2>1
  <2> DEFINE Next1(n) == IF rows[n].key \in keys THEN kept[n - 1] ELSE Append(kept[n - 1], rows[n])
             further == [n \in 0 .. m |-> IF n = m THEN Next1(m) ELSE kept[n]]
  <2>3. \A n \in 0 .. m - 1 : kept[n] = IF n = 0 THEN << >> ELSE Next1(n)
    BY <2>2 DEF KeptRule
  <2> HIDE DEF Next1
  <2>4. \A n \in 0 .. m : further[n] = IF n = 0 THEN << >> ELSE Next1(n)
    BY <1>3, <2>1, <2>3
  <2>5. \A n \in 1 .. m : further[n - 1] = kept[n - 1]
    BY <2>1
  <2>6. \A n \in 0 .. m : further[n] = IF n = 0 THEN << >>
          ELSE IF rows[n].key \in keys THEN further[n - 1] ELSE Append(further[n - 1], rows[n])
    BY <2>1, <2>4, <2>5 DEF Next1
  <2>7. further = [n \in 0 .. m |-> further[n]]
    OBVIOUS
  <2> HIDE DEF further
  <2>8. KeptRule(rows, keys, m, further)
    BY <2>6, <2>7 DEF KeptRule
  <2> QED
    BY <1>1, <2>8
<1> QED
  BY <1>2, <1>3

\* Deleted removes the rows with these keys and no others.
LEMMA DeletedRows ==
  ASSUME NEW rows, IsTable(rows), NEW keys
  PROVE  /\ IsTable(Deleted(rows, keys))
         /\ ToSet(Deleted(rows, keys)) = {e \in ToSet(rows) : e.key \notin keys}
<1> DEFINE N == Len(rows)
           First(n) == {rows[i] : i \in {j \in 1 .. n : rows[j].key \notin keys}}
<1>1. /\ N \in Nat /\ DOMAIN rows = 1 .. N
      /\ ToSet(rows) = {rows[n] : n \in 1 .. N}
      /\ \A m, n \in 1 .. N : rows[m].key = rows[n].key => m = n
  BY RowsOf DEF IsTable, Keyed
<1>2. PICK kept : KeptRule(rows, keys, N, kept) /\ Deleted(rows, keys) = kept[N]
  <2> DEFINE chosen == CHOOSE any : KeptRule(rows, keys, N, any)
  <2>1. Deleted(rows, keys) = chosen[N]
    BY DEF Deleted, KeptRule
  <2>2. KeptRule(rows, keys, N, chosen)
    BY <1>1, KeptExists
  <2> HIDE DEF chosen
  <2> QED
    BY <2>1, <2>2
<1> HIDE DEF N
<1> DEFINE Right(n) == kept[n] \in Seq(ToSet(rows)) /\ Keyed(kept[n]) /\ ToSet(kept[n]) = First(n)
           Wrong == {n \in 0 .. N : ~Right(n)}
<1>3. ASSUME Wrong # {} PROVE FALSE
  <2>1. PICK n \in Wrong : \A k \in Wrong : n <= k
    <3>1. Wrong \in SUBSET Nat
      BY <1>1
    <3> HIDE DEF Wrong
    <3> QED
      BY <1>3, <3>1, LeastOf
  <2>2. CASE n = 0
    <3>1. kept[n] = << >>
      BY <1>1, <1>2, <2>2 DEF KeptRule
    <3>2. First(n) = {}
      BY <2>2
    <3>3. << >> \in Seq(ToSet(rows)) /\ Keyed(<< >>) /\ ToSet(<< >>) = {}
      BY DEF Keyed, ToSet
    <3>4. Right(n)
      BY <3>1, <3>2, <3>3
    <3> QED
      BY <2>1, <3>4
  <2>3. CASE n # 0
    <3>0. n \in 1 .. N /\ n - 1 \in 0 .. N /\ n - 1 \notin Wrong
      <4> HIDE DEF Right
      <4> QED
        BY <1>1, <2>1, <2>3
    <3>1. n \in 1 .. N /\ n - 1 \in 0 .. N /\ Right(n - 1)
      BY <3>0
    <3>2. kept[n] = IF rows[n].key \in keys THEN kept[n - 1] ELSE Append(kept[n - 1], rows[n])
      BY <1>1, <1>2, <2>3, <3>1 DEF KeptRule
    <3>3. \A j \in 1 .. n : j = n \/ j \in 1 .. n - 1
      BY <1>1, <3>1
    <3>4. CASE rows[n].key \in keys
      <4>1. First(n) = First(n - 1)
        BY <1>1, <3>1, <3>3, <3>4
      <4> QED
        BY <2>1, <3>1, <3>2, <3>4, <4>1
    <3>5. CASE rows[n].key \notin keys
      <4>1. First(n) = First(n - 1) \cup {rows[n]}
        BY <1>1, <3>1, <3>3, <3>5
      <4> DEFINE s == kept[n - 1]
                 more == Append(s, rows[n])
      <4>2. s \in Seq(ToSet(rows)) /\ Keyed(s) /\ ToSet(s) = First(n - 1) /\ rows[n] \in ToSet(rows)
        BY <1>1, <3>1
      <4>3. \A i \in DOMAIN s : s[i].key # rows[n].key
        <5>1. ASSUME NEW i \in DOMAIN s PROVE s[i].key # rows[n].key
          <6>1. s[i] \in First(n - 1)
            BY <4>2, <5>1 DEF ToSet
          <6> QED
            BY <1>1, <3>1, <6>1
        <5> QED
          BY <5>1
      <4> HIDE DEF s, First
      <4>4. /\ more \in Seq(ToSet(rows)) /\ DOMAIN more = 1 .. Len(s) + 1 /\ Len(s) \in Nat
            /\ DOMAIN s = 1 .. Len(s)
            /\ \A i \in 1 .. Len(s) : more[i] = s[i]
            /\ more[Len(s) + 1] = rows[n]
        BY <4>2
      <4>5. \A i \in DOMAIN more : i \in DOMAIN s \/ i = Len(s) + 1
        BY <4>4
      <4> HIDE DEF more
      <4>6. Keyed(more)
        BY <4>2, <4>3, <4>4, <4>5 DEF Keyed
      <4>7. ToSet(more) = ToSet(s) \cup {rows[n]}
        BY <4>4, <4>5 DEF ToSet
      <4> QED
        BY <2>1, <3>2, <3>5, <4>1, <4>2, <4>4, <4>6, <4>7 DEF s, more
    <3> QED
      BY <3>4, <3>5
  <2> QED
    BY <2>2, <2>3
<1>4. Right(N)
  <2> HIDE DEF Right
  <2> QED
    BY <1>1, <1>3
<1>5. First(N) = {e \in ToSet(rows) : e.key \notin keys}
  BY <1>1
<1> HIDE DEF First
<1>6. kept[N] \in Seq(ToSet(kept[N]))
  BY <1>4, RowsOf
<1> QED
  BY <1>2, <1>4, <1>5, <1>6 DEF IsTable

-----------------------------------------------------------------------------
(***************************************************************************)
(* A table as a dictionary: its rows by their keys.                        *)
(***************************************************************************)
ShelfOf(rows) == [k \in {e.key : e \in ToSet(rows)} |-> (CHOOSE e \in ToSet(rows) : e.key = k).row]
Pair(key, row) == [key |-> key, row |-> row]

LEMMA OneRow ==
  ASSUME NEW rows, IsTable(rows), NEW e \in ToSet(rows), NEW f \in ToSet(rows), e.key = f.key
  PROVE  e = f
  BY DEF IsTable, Keyed, ToSet

LEMMA ShelfRow ==
  ASSUME NEW rows, IsTable(rows), NEW e \in ToSet(rows)
  PROVE  e.key \in DOMAIN ShelfOf(rows) /\ ShelfOf(rows)[e.key] = e.row
<1>1. (CHOOSE f \in ToSet(rows) : f.key = e.key) = e
  BY OneRow
<1> QED
  BY <1>1 DEF ShelfOf

LEMMA ShelfKeys ==
  ASSUME NEW rows
  PROVE  /\ DOMAIN ShelfOf(rows) = {e.key : e \in ToSet(rows)}
         /\ ShelfOf(rows) = [k \in DOMAIN ShelfOf(rows) |-> ShelfOf(rows)[k]]
  BY DEF ShelfOf

LEMMA HasKey ==
  ASSUME NEW rows, NEW k
  PROVE  k \in DOMAIN ShelfOf(rows) <=> \E e \in ToSet(rows) : e.key = k
<1> DEFINE Keys == DOMAIN ShelfOf(rows)
           All == ToSet(rows)
<1>1. Keys = {e.key : e \in All}
  BY ShelfKeys
<1> HIDE DEF Keys, All
<1>2. k \in Keys <=> \E e \in All : e.key = k
  BY <1>1
<1> QED
  BY <1>2 DEF Keys, All

\* A dictionary is what its rows say.
LEMMA SameShelf ==
  ASSUME NEW rows, IsTable(rows), NEW dict, dict = [k \in DOMAIN dict |-> dict[k]],
         DOMAIN dict = {e.key : e \in ToSet(rows)}, \A e \in ToSet(rows) : dict[e.key] = e.row
  PROVE  ShelfOf(rows) = dict
<1>1. \A k \in DOMAIN dict : ShelfOf(rows)[k] = dict[k]
  BY ShelfRow
<1> QED
  BY <1>1, ShelfKeys

LEMMA DeletedShelf ==
  ASSUME NEW rows, IsTable(rows), NEW keys
  PROVE  ShelfOf(Deleted(rows, keys)) = Promised!Dropped(ShelfOf(rows), keys)
<1> DEFINE left == Deleted(rows, keys)
           dict == Promised!Dropped(ShelfOf(rows), keys)
<1>1. IsTable(left) /\ ToSet(left) = {e \in ToSet(rows) : e.key \notin keys}
  BY DeletedRows
<1>2. dict = [k \in DOMAIN ShelfOf(rows) \ keys |-> ShelfOf(rows)[k]]
  BY DEF Promised!Dropped, Promised!Restrict
<1> HIDE DEF left, dict
<1>3. DOMAIN dict = {e.key : e \in ToSet(left)}
  <2>1. ASSUME NEW k PROVE k \in DOMAIN dict <=> \E e \in ToSet(left) : e.key = k
    <3>1. k \in DOMAIN dict <=> k \in DOMAIN ShelfOf(rows) /\ k \notin keys
      BY <1>2
    <3> QED
      BY <1>1, <3>1, HasKey
  <2> QED
    BY <2>1
<1>4. \A e \in ToSet(left) : dict[e.key] = e.row
  BY <1>1, <1>2, ShelfRow
<1>5. dict = [k \in DOMAIN dict |-> dict[k]]
  BY <1>2
<1>6. ShelfOf(left) = dict
  BY <1>1, <1>3, <1>4, <1>5, SameShelf
<1> QED
  BY <1>6 DEF left, dict

LEMMA ReplacedRows ==
  ASSUME NEW rows, IsTable(rows), NEW key, NEW row
  PROVE  /\ IsTable(Replaced(rows, key, row))
         /\ ToSet(Replaced(rows, key, row)) = {e \in ToSet(rows) : e.key # key} \cup {Pair(key, row)}
<1> DEFINE left == Deleted(rows, {key})
           more == Append(left, Pair(key, row))
<1>1. IsTable(left) /\ ToSet(left) = {e \in ToSet(rows) : e.key # key}
  BY DeletedRows
<1>2. Replaced(rows, key, row) = more
  BY DEF Replaced, Pair
<1> HIDE DEF left
<1>3. Len(left) \in Nat /\ DOMAIN left = 1 .. Len(left) /\ left \in Seq(ToSet(left) \cup {Pair(key, row)})
  BY <1>1, RowsOf DEF IsTable
<1>4. /\ more \in Seq(ToSet(left) \cup {Pair(key, row)}) /\ DOMAIN more = 1 .. Len(left) + 1
      /\ \A i \in 1 .. Len(left) : more[i] = left[i]
      /\ more[Len(left) + 1] = Pair(key, row)
  BY <1>3
<1>5. \A i \in DOMAIN more : i \in DOMAIN left \/ i = Len(left) + 1
  BY <1>3, <1>4
<1>6. \A i \in DOMAIN left : left[i].key # key
  BY <1>1 DEF ToSet
<1> HIDE DEF more
<1>7. Keyed(more)
  BY <1>1, <1>3, <1>4, <1>5, <1>6 DEF Keyed, IsTable, Pair
<1>8. ToSet(more) = ToSet(left) \cup {Pair(key, row)}
  BY <1>3, <1>4, <1>5 DEF ToSet
<1> QED
  BY <1>1, <1>2, <1>4, <1>7, <1>8 DEF IsTable

LEMMA ReplacedShelf ==
  ASSUME NEW rows, IsTable(rows), NEW key, NEW row
  PROVE  ShelfOf(Replaced(rows, key, row)) = Promised!Put(ShelfOf(rows), key, row)
<1> DEFINE more == Replaced(rows, key, row)
           dict == Promised!Put(ShelfOf(rows), key, row)
<1>1. IsTable(more) /\ ToSet(more) = {e \in ToSet(rows) : e.key # key} \cup {Pair(key, row)}
  BY ReplacedRows
<1>2. dict = [k \in DOMAIN ShelfOf(rows) \cup {key} |-> IF k = key THEN row ELSE ShelfOf(rows)[k]]
  BY DEF Promised!Put
<1> HIDE DEF more, dict
<1>3. DOMAIN dict = {e.key : e \in ToSet(more)}
  <2>1. ASSUME NEW k PROVE k \in DOMAIN dict <=> \E e \in ToSet(more) : e.key = k
    <3>1. k \in DOMAIN dict <=> k \in DOMAIN ShelfOf(rows) \/ k = key
      BY <1>2
    <3>2. k \in DOMAIN ShelfOf(rows) <=> \E e \in ToSet(rows) : e.key = k
      BY HasKey
    <3>3. Pair(key, row).key = key
      BY DEF Pair
    <3> QED
      BY <1>1, <3>1, <3>2, <3>3
  <2> QED
    BY <2>1
<1>4. \A e \in ToSet(more) : dict[e.key] = e.row
  BY <1>1, <1>2, ShelfRow DEF Pair
<1>5. dict = [k \in DOMAIN dict |-> dict[k]]
  BY <1>2
<1>6. ShelfOf(more) = dict
  BY <1>1, <1>3, <1>4, <1>5, SameShelf
<1> QED
  BY <1>6 DEF more, dict

LEMMA UpdatedRows ==
  ASSUME NEW rows, IsTable(rows), NEW key, NEW row
  PROVE  /\ IsTable(Updated(rows, key, row))
         /\ ToSet(Updated(rows, key, row)) = {IF e.key = key THEN Pair(key, row) ELSE e : e \in ToSet(rows)}
<1> DEFINE set == Updated(rows, key, row)
           To(e) == IF e.key = key THEN Pair(key, row) ELSE e
<1>1. /\ Len(rows) \in Nat /\ DOMAIN rows = 1 .. Len(rows) /\ rows \in Seq(ToSet(rows))
      /\ ToSet(rows) = {rows[n] : n \in 1 .. Len(rows)}
  BY RowsOf DEF IsTable
<1>2. set = [n \in 1 .. Len(rows) |-> To(rows[n])]
  BY <1>1 DEF Updated, Pair
<1>3. \A e : To(e).key = e.key
  BY DEF Pair
<1> HIDE DEF set, To
<1>4. ToSet(set) = {To(e) : e \in ToSet(rows)} /\ DOMAIN set = 1 .. Len(rows)
  BY <1>1, <1>2 DEF ToSet
<1>5. Keyed(set)
  <2>1. \A n \in 1 .. Len(rows) : set[n].key = rows[n].key
    BY <1>2, <1>3
  <2> QED
    BY <1>1, <1>4, <2>1 DEF IsTable, Keyed
<1>6. set \in Seq(ToSet(set))
  <2>1. set \in [1 .. Len(rows) -> ToSet(set)]
    BY <1>1, <1>2 DEF ToSet
  <2> QED
    BY <1>1, <2>1
<1> QED
  BY <1>4, <1>5, <1>6 DEF IsTable, set, To

LEMMA UpdatedShelf ==
  ASSUME NEW rows, IsTable(rows), NEW key, NEW row
  PROVE  ShelfOf(Updated(rows, key, row)) = [ShelfOf(rows) EXCEPT ![key] = row]
<1> DEFINE set == Updated(rows, key, row)
           dict == [ShelfOf(rows) EXCEPT ![key] = row]
<1>1. IsTable(set) /\ ToSet(set) = {IF e.key = key THEN Pair(key, row) ELSE e : e \in ToSet(rows)}
  BY UpdatedRows
<1>2. dict = [k \in DOMAIN ShelfOf(rows) |-> IF k = key THEN row ELSE ShelfOf(rows)[k]]
  OBVIOUS
<1> HIDE DEF set, dict
<1>3. DOMAIN dict = {e.key : e \in ToSet(set)}
  <2>1. \A e : (IF e.key = key THEN Pair(key, row) ELSE e).key = e.key
    BY DEF Pair
  <2> QED
    BY <1>1, <1>2, <2>1, ShelfKeys
<1>4. \A e \in ToSet(set) : dict[e.key] = e.row
  BY <1>1, <1>2, ShelfRow DEF Pair
<1>5. dict = [k \in DOMAIN dict |-> dict[k]]
  BY <1>2
<1>6. ShelfOf(set) = dict
  BY <1>1, <1>3, <1>4, <1>5, SameShelf
<1> QED
  BY <1>6 DEF set, dict

-----------------------------------------------------------------------------
(***************************************************************************)
(* The calls that requests make.                                           *)
(***************************************************************************)
Calls == UNION {ToSet(CallsOf(r)) : r \in Requests}

CallFits(c) ==
  /\ c.op \in {"add", "remove", "bump", "revoke", "consume", "clear", "replace"}
  /\ c.op = "add" => c.table \in Names \ {"claim_views"}
  /\ c.op = "add" /\ c.table = "papers" => c.row \in PaperRows /\ c.key = c.row.id
  /\ c.op = "add" /\ c.table = "claims" => c.row \in ClaimRows /\ c.key = c.row.id
  /\ c.op = "add" /\ c.table = "annotations" => c.row \in AnnotationRows /\ c.key = c.row.id
  /\ c.op = "remove" => c.table = "tokens"
  /\ c.op = "consume" => c.table = "paste_codes"
  /\ c.op = "replace" => \E id : c.ids = <<id>>

IssuesCode(r) == r.op = "issue" /\ r.table \in CodeTables
AddsCode(c) == c.op = "add" /\ c.table \in CodeTables

LEMMA StoreCallsFit ==
  ASSUME NEW r \in Requests, r.op \in {"submit", "reset", "reseed"}
  PROVE  /\ StoreCalls(r.paper) \in Seq(ToSet(StoreCalls(r.paper)))
         /\ \A c \in ToSet(StoreCalls(r.paper)) : CallFits(c) /\ ~AddsCode(c) /\ c.op = "add"
<1> DEFINE paper == r.paper
           front == <<AddCall("sources", paper.row.id, paper.row), AddCall("rendered_pdfs", paper.row.id, paper.row),
                      AddCall("papers", paper.row.id, paper.row), AddCall("cirs", paper.row.id, paper.row)>>
           back == [n \in DOMAIN paper.claims |-> AddCall("claims", paper.claims[n].id, paper.claims[n])]
           Fronts == {front[1], front[2], front[3], front[4]}
           Backs == {AddCall("claims", c.id, c) : c \in ToSet(paper.claims)}
<1>1. paper.row \in PaperRows /\ ToSet(paper.claims) \subseteq ClaimRows
  BY DEF PaperRows, ClaimRows, Brings
<1>2. Len(paper.claims) \in Nat /\ DOMAIN paper.claims = 1 .. Len(paper.claims)
  <2>1. paper.claims \in Seq(ClaimRows)
    BY RequestsAssumption DEF Brings
  <2> HIDE DEF paper
  <2> QED
    BY <2>1
<1>3. \A c \in Fronts : CallFits(c) /\ ~AddsCode(c) /\ c.op = "add"
  <2> HIDE DEF paper
  <2> QED
    BY <1>1 DEF AddCall, CallFits, AddsCode, Names, CorpusNames, CodeTables
<1>4. \A c \in Backs : CallFits(c) /\ ~AddsCode(c) /\ c.op = "add"
  <2> HIDE DEF paper
  <2> QED
    BY <1>1 DEF AddCall, CallFits, AddsCode, Names, CorpusNames, CodeTables
<1>5. front \in Seq(Fronts)
  <2> DEFINE a == front[1]
             b == front[2]
             d == front[3]
             e == front[4]
  <2>1. front = <<a, b, d, e>>
    OBVIOUS
  <2> HIDE DEF a, b, d, e
  <2>2. <<a, b, d, e>> \in Seq({a, b, d, e})
    OBVIOUS
  <2> QED
    BY <2>1, <2>2 DEF a, b, d, e
<1>6. back \in Seq(Backs)
  <2> HIDE DEF paper
  <2>1. back \in [1 .. Len(paper.claims) -> Backs]
    BY <1>2 DEF ToSet
  <2> QED
    BY <1>2, <2>1
<1>7. StoreCalls(paper) = front \o back
  BY DEF StoreCalls
<1> HIDE DEF front, back, Fronts, Backs, paper
<1>8. StoreCalls(paper) \in Seq(Fronts \cup Backs)
  <2>1. front \in Seq(Fronts \cup Backs) /\ back \in Seq(Fronts \cup Backs)
    BY <1>5, <1>6
  <2> QED
    BY <1>7, <2>1
<1>9. ToSet(StoreCalls(paper)) \subseteq Fronts \cup Backs
  BY <1>8 DEF ToSet
<1> QED
  BY <1>3, <1>4, <1>8, <1>9, RowsOf DEF paper

LEMMA CallsFit ==
  ASSUME NEW r \in Requests
  PROVE  /\ CallsOf(r) \in Seq(Calls)
         /\ \A c \in ToSet(CallsOf(r)) : CallFits(c) /\ (AddsCode(c) => IssuesCode(r))
         /\ IssuesCode(r) => CallsOf(r) = <<AddCall(r.table, r.key, r.row)>>
<1> DEFINE stored == StoreCalls(r.paper)
<1>1. ASSUME NEW S, CallsOf(r) \in Seq(S) PROVE CallsOf(r) \in Seq(Calls)
  <2>1. CallsOf(r) \in Seq(ToSet(CallsOf(r))) /\ ToSet(CallsOf(r)) \subseteq Calls
    BY <1>1, RowsOf DEF Calls
  <2> QED
    BY <2>1
<1>2. CASE r.op = "submit"
  <2>1. CallsOf(r) = stored
    BY <1>2 DEF CallsOf
  <2>2. stored \in Seq(ToSet(stored)) /\ \A c \in ToSet(stored) : CallFits(c) /\ ~AddsCode(c)
    BY <1>2, StoreCallsFit
  <2> QED
    BY <1>1, <1>2, <2>1, <2>2 DEF IssuesCode
<1>3. ASSUME NEW c, CallFits(c), ~AddsCode(c), r.op \in {"reset", "reseed"}, CallsOf(r) = <<c>> \o stored
      PROVE  /\ CallsOf(r) \in Seq(ToSet(stored) \cup {c})
             /\ \A d \in ToSet(CallsOf(r)) : CallFits(d) /\ ~AddsCode(d)
  <2>1. stored \in Seq(ToSet(stored)) /\ \A d \in ToSet(stored) : CallFits(d) /\ ~AddsCode(d)
    BY <1>3, StoreCallsFit
  <2> DEFINE T == ToSet(stored) \cup {c}
  <2> HIDE DEF stored
  <2>2. <<c>> \in Seq(T) /\ stored \in Seq(T)
    BY <2>1
  <2> HIDE DEF T
  <2>3. <<c>> \o stored \in Seq(T)
    BY <2>2
  <2>4. CallsOf(r) \in Seq(T)
    BY <1>3, <2>3
  <2>5. ToSet(CallsOf(r)) \subseteq T
    BY <2>4 DEF ToSet
  <2> QED
    BY <1>3, <2>1, <2>4, <2>5 DEF T
<1>4. CASE r.op = "reset"
  <2> DEFINE c == [op |-> "clear"]
  <2>1. CallsOf(r) = <<c>> \o stored
    BY <1>4 DEF CallsOf
  <2>2. CallFits(c) /\ ~AddsCode(c)
    BY DEF CallFits, AddsCode
  <2> QED
    BY <1>1, <1>3, <1>4, <2>1, <2>2 DEF IssuesCode
<1>5. CASE r.op = "reseed"
  <2> DEFINE c == [op |-> "replace", ids |-> <<r.paper.row.id>>]
  <2>1. CallsOf(r) = <<c>> \o stored
    BY <1>5 DEF CallsOf
  <2>2. CallFits(c) /\ ~AddsCode(c)
    BY DEF CallFits, AddsCode
  <2> QED
    BY <1>1, <1>3, <1>5, <2>1, <2>2 DEF IssuesCode
<1>6. ASSUME NEW c, CallsOf(r) = <<c>>
      PROVE  CallsOf(r) \in Seq({c}) /\ ToSet(CallsOf(r)) = {c}
  BY <1>6 DEF ToSet
<1>7. CASE r.op = "annotate"
  <2>1. CallsOf(r) = <<AddCall("annotations", r.row.id, r.row)>>
    BY <1>7 DEF CallsOf
  <2>2. CallFits(AddCall("annotations", r.row.id, r.row)) /\ ~AddsCode(AddCall("annotations", r.row.id, r.row))
    <3>1. r.row \in AnnotationRows
      BY <1>7 DEF AnnotationRows, Brings
    <3> QED
      BY <3>1 DEF CallFits, AddsCode, AddCall, Names, CorpusNames, CodeTables
  <2> QED
    BY <1>1, <1>6, <1>7, <2>1, <2>2 DEF IssuesCode
<1>8. CASE r.op = "view"
  <2> DEFINE c == [op |-> "bump", key |-> r.claim]
  <2>1. CallsOf(r) = <<c>>
    BY <1>8 DEF CallsOf
  <2>2. CallFits(c) /\ ~AddsCode(c)
    BY DEF CallFits, AddsCode
  <2> QED
    BY <1>1, <1>6, <1>8, <2>1, <2>2 DEF IssuesCode
<1>9. CASE r.op = "issue"
  <2> DEFINE c == AddCall(r.table, r.key, r.row)
  <2>1. CallsOf(r) = <<c>>
    BY <1>9 DEF CallsOf
  <2>2. r.table \in CodeTables \cup {"tokens", "orcid_keys"}
    BY <1>9, RequestsAssumption DEF Brings
  <2>3. CallFits(c) /\ (AddsCode(c) => IssuesCode(r))
    BY <1>9, <2>2 DEF CallFits, AddsCode, IssuesCode, AddCall, Names, CorpusNames, CodeTables
  <2> HIDE DEF c
  <2>4. CallsOf(r) \in Seq({c}) /\ ToSet(CallsOf(r)) = {c}
    BY <1>6, <2>1
  <2> QED
    BY <1>1, <2>1, <2>3, <2>4 DEF c
<1>10. CASE r.op = "logout"
  <2> DEFINE c == [op |-> "remove", table |-> "tokens", key |-> r.key]
  <2>1. CallsOf(r) = <<c>>
    BY <1>10 DEF CallsOf
  <2>2. CallFits(c) /\ ~AddsCode(c)
    BY DEF CallFits, AddsCode
  <2> QED
    BY <1>1, <1>6, <1>10, <2>1, <2>2 DEF IssuesCode
<1>11. CASE r.op = "revoke"
  <2> DEFINE c == [op |-> "revoke", key |-> r.key, at |-> r.now]
  <2>1. CallsOf(r) = <<c>>
    BY <1>11 DEF CallsOf
  <2>2. CallFits(c) /\ ~AddsCode(c)
    BY DEF CallFits, AddsCode
  <2> QED
    BY <1>1, <1>6, <1>11, <2>1, <2>2 DEF IssuesCode
<1>12. CASE r.op = "redeem"
  <2> DEFINE c == [op |-> "consume", table |-> "paste_codes", key |-> r.key]
             d == AddCall("tokens", r.token, [code |-> r.key])
  <2>1. CallsOf(r) = <<c, d>>
    BY <1>12 DEF CallsOf
  <2>2. CallFits(c) /\ ~AddsCode(c) /\ CallFits(d) /\ ~AddsCode(d)
    BY DEF CallFits, AddsCode, AddCall, Names, CorpusNames, CodeTables
  <2> HIDE DEF c, d
  <2>3. CallsOf(r) \in Seq({c, d}) /\ ToSet(CallsOf(r)) = {c, d}
    BY <2>1 DEF ToSet
  <2> QED
    BY <1>1, <1>12, <2>2, <2>3 DEF IssuesCode
<1> QED
  BY <1>2, <1>4, <1>5, <1>7, <1>8, <1>9, <1>10, <1>11, <1>12, RequestsAssumption

-----------------------------------------------------------------------------
(***************************************************************************)
(* What each call does to the tables is what it does to the dictionaries.  *)
(***************************************************************************)
TablesOK ==
  /\ tables = [n \in Names |-> tables[n]]
  /\ \A n \in Names : IsTable(tables[n])
Shelf == [n \in Names |-> ShelfOf(tables[n])]

Corpora == {"papers", "claims", "annotations"}
\* Nothing new among the papers, claims and annotations, the codes as they were.
NoNews ==
  /\ \A n \in Corpora : ToSet(tables'[n]) \subseteq ToSet(tables[n])
  /\ \A n \in CodeTables : tables'[n] = tables[n]

LEMMA AddStep ==
  ASSUME TablesOK, NEW c, CallFits(c), InsertOrReplace(c)
  PROVE  /\ TablesOK' /\ Promised!Add(c) /\ \A n \in Names \ {c.table} : tables'[n] = tables[n]
         /\ c.table \in Names /\ ToSet(tables'[c.table]) \subseteq ToSet(tables[c.table]) \cup {Pair(c.key, c.row)}
         /\ ShelfOf(tables'[c.table]) = Promised!Put(ShelfOf(tables[c.table]), c.key, c.row)
<1>1. c.op = "add" /\ c.table \in Names
  BY DEF CallFits, InsertOrReplace
<1> DEFINE table == tables[c.table]
           more == Replaced(table, c.key, c.row)
<1>2. tables' = [n \in Names |-> IF n = c.table THEN more ELSE tables[n]]
  BY <1>1 DEF InsertOrReplace, TablesOK
<1>3. /\ IsTable(more) /\ ShelfOf(more) = Promised!Put(ShelfOf(table), c.key, c.row)
      /\ ToSet(more) \subseteq ToSet(table) \cup {Pair(c.key, c.row)}
  BY <1>1, ReplacedRows, ReplacedShelf DEF TablesOK
<1> HIDE DEF more
<1>4. TablesOK'
  BY <1>2, <1>3 DEF TablesOK
<1>5. Shelf' = [Shelf EXCEPT ![c.table] = Promised!Put(Shelf[c.table], c.key, c.row)]
  BY <1>1, <1>2, <1>3 DEF Shelf
<1>6. Promised!Add(c)
  BY <1>1, <1>5 DEF Promised!Add, Shelf, ShelfOf, Got
<1> QED
  BY <1>1, <1>2, <1>3, <1>4, <1>6

LEMMA RemoveStep ==
  ASSUME TablesOK, NEW c, CallFits(c), DeleteRow(c)
  PROVE  TablesOK' /\ Promised!Remove(c) /\ NoNews
<1>1. c.op = "remove" /\ c.table = "tokens" /\ c.table \in Names
  BY DEF CallFits, DeleteRow, Names
<1> DEFINE table == tables[c.table]
           left == Deleted(table, {c.key})
<1>2. tables' = [n \in Names |-> IF n = c.table THEN left ELSE tables[n]]
  BY <1>1 DEF DeleteRow, TablesOK
<1>3. IsTable(left) /\ ShelfOf(left) = Promised!Dropped(ShelfOf(table), {c.key})
  BY <1>1, DeletedRows, DeletedShelf DEF TablesOK
<1> HIDE DEF left
<1>4. TablesOK'
  BY <1>2, <1>3 DEF TablesOK
<1>5. Shelf' = [Shelf EXCEPT ![c.table] = Promised!Dropped(Shelf[c.table], {c.key})]
  BY <1>1, <1>2, <1>3 DEF Shelf
<1>6. Promised!Remove(c)
  BY <1>1, <1>5 DEF Promised!Remove, Shelf, ShelfOf, Got
<1>7. NoNews
  BY <1>1, <1>2 DEF NoNews, Corpora, CodeTables, Names, CorpusNames
<1> QED
  BY <1>4, <1>6, <1>7

LEMMA HasShelf ==
  ASSUME NEW n \in Names, NEW key
  PROVE  /\ Has(n, key) <=> key \in DOMAIN ShelfOf(tables[n])
         /\ Has(n, key) => Got(n, key) = ShelfOf(tables[n])[key]
<1>1. Has(n, key) <=> \E e \in ToSet(tables[n]) : e.key = key
  BY DEF Has, ToSet
<1>2. Has(n, key) <=> key \in DOMAIN ShelfOf(tables[n])
  BY <1>1, HasKey
<1> QED
  BY <1>2 DEF Got, ShelfOf

LEMMA BumpStep ==
  ASSUME TablesOK, NEW c, Upsert(c)
  PROVE  TablesOK' /\ Promised!BumpClaimView(c) /\ NoNews
<1> DEFINE table == tables["claim_views"]
           views == ShelfOf(table)
           new == IF Has("claim_views", c.key) THEN Updated(table, c.key, Got("claim_views", c.key) + 1)
                  ELSE Replaced(table, c.key, 1)
<1>1. c.op = "bump" /\ "claim_views" \in Names
  BY DEF Upsert, Names, CorpusNames
<1>2. tables' = [n \in Names |-> IF n = "claim_views" THEN new ELSE tables[n]]
  BY <1>1 DEF Upsert, TablesOK
<1>3. IsTable(table)
  BY <1>1 DEF TablesOK
<1>4. IsTable(new) /\ ShelfOf(new) = Promised!Put(views, c.key, IF c.key \in DOMAIN views THEN views[c.key] + 1 ELSE 1)
  <2>1. CASE Has("claim_views", c.key)
    <3>1. c.key \in DOMAIN views /\ Got("claim_views", c.key) = views[c.key]
      BY <1>1, <2>1, HasShelf
    <3>2. IsTable(new) /\ ShelfOf(new) = [views EXCEPT ![c.key] = views[c.key] + 1]
      BY <1>3, <2>1, <3>1, UpdatedRows, UpdatedShelf
    <3> HIDE DEF new, views
    <3>3. [views EXCEPT ![c.key] = views[c.key] + 1] = Promised!Put(views, c.key, views[c.key] + 1)
      <4>1. DOMAIN views \cup {c.key} = DOMAIN views
        BY <3>1
      <4> QED
        BY <4>1 DEF Promised!Put
    <3> QED
      BY <3>1, <3>2, <3>3
  <2>2. CASE ~Has("claim_views", c.key)
    <3>1. c.key \notin DOMAIN views
      BY <1>1, <2>2, HasShelf
    <3> QED
      BY <1>3, <2>2, <3>1, ReplacedRows, ReplacedShelf
  <2> QED
    BY <2>1, <2>2
<1> HIDE DEF new
<1>5. TablesOK'
  BY <1>2, <1>4 DEF TablesOK
<1>6. Shelf' = [Shelf EXCEPT !["claim_views"] = Promised!Put(Shelf["claim_views"], c.key,
                  IF c.key \in DOMAIN Shelf["claim_views"] THEN Shelf["claim_views"][c.key] + 1 ELSE 1)]
  BY <1>1, <1>2, <1>4 DEF Shelf
<1>7. Promised!BumpClaimView(c)
  BY <1>1, <1>6 DEF Promised!BumpClaimView, Shelf, ShelfOf, Got
<1>8. NoNews
  BY <1>1, <1>2 DEF NoNews, Corpora, CodeTables, Names, CorpusNames
<1> QED
  BY <1>5, <1>7, <1>8

LEMMA RevokeStep ==
  ASSUME TablesOK, NEW c, UpdateUnrevoked(c)
  PROVE  TablesOK' /\ Promised!RevokeOrcidKey(c) /\ NoNews
<1> DEFINE table == tables["orcid_keys"]
           keys == ShelfOf(table)
           new == IF Has("orcid_keys", c.key) /\ Got("orcid_keys", c.key).revoked_at = None
                  THEN Updated(table, c.key, [Got("orcid_keys", c.key) EXCEPT !.revoked_at = c.at]) ELSE table
<1>1. c.op = "revoke" /\ "orcid_keys" \in Names
  BY DEF UpdateUnrevoked, Names, CorpusNames
<1>2. tables' = [n \in Names |-> IF n = "orcid_keys" THEN new ELSE tables[n]]
  BY <1>1 DEF UpdateUnrevoked, TablesOK
<1>3. IsTable(table)
  BY <1>1 DEF TablesOK
<1>4. IsTable(new) /\ ShelfOf(new) = IF c.key \in DOMAIN keys /\ keys[c.key].revoked_at = None
                                     THEN [keys EXCEPT ![c.key].revoked_at = c.at] ELSE keys
  <2>1. CASE Has("orcid_keys", c.key) /\ Got("orcid_keys", c.key).revoked_at = None
    <3>1. c.key \in DOMAIN keys /\ Got("orcid_keys", c.key) = keys[c.key]
      BY <1>1, <2>1, HasShelf
    <3> QED
      BY <1>3, <2>1, <3>1, UpdatedRows, UpdatedShelf
  <2>2. CASE ~(Has("orcid_keys", c.key) /\ Got("orcid_keys", c.key).revoked_at = None)
    <3>1. new = table
      BY <2>2
    <3>2. ~(c.key \in DOMAIN keys /\ keys[c.key].revoked_at = None)
      BY <1>1, <2>2, HasShelf
    <3> QED
      BY <1>3, <3>1, <3>2
  <2> QED
    BY <2>1, <2>2
<1> HIDE DEF new
<1>5. TablesOK'
  BY <1>2, <1>4 DEF TablesOK
<1>6. Shelf' = [Shelf EXCEPT !["orcid_keys"] =
                  IF c.key \in DOMAIN Shelf["orcid_keys"] /\ Shelf["orcid_keys"][c.key].revoked_at = None
                  THEN [Shelf["orcid_keys"] EXCEPT ![c.key].revoked_at = c.at] ELSE Shelf["orcid_keys"]]
  BY <1>1, <1>2, <1>4 DEF Shelf
<1>7. Promised!RevokeOrcidKey(c)
  BY <1>1, <1>6 DEF Promised!RevokeOrcidKey, Shelf, ShelfOf, Got
<1>8. NoNews
  BY <1>1, <1>2 DEF NoNews, Corpora, CodeTables, Names, CorpusNames
<1> QED
  BY <1>5, <1>7, <1>8

LEMMA ClearStep ==
  ASSUME TablesOK, NEW c, DeleteCorpus(c)
  PROVE  TablesOK' /\ Promised!ClearCorpus(c) /\ NoNews
<1>1. c.op = "clear" /\ tables' = [n \in Names |-> IF n \in CorpusNames THEN << >> ELSE tables[n]]
  BY DEF DeleteCorpus
<1>2. IsTable(<< >>) /\ ToSet(<< >>) = {}
  BY DEF IsTable, Keyed, ToSet
<1>3. ShelfOf(<< >>) = << >>
  BY <1>2 DEF ShelfOf
<1>4. TablesOK'
  BY <1>1, <1>2 DEF TablesOK
<1>5. Shelf' = [n \in Names |-> IF n \in CorpusNames THEN << >> ELSE Shelf[n]]
  BY <1>1, <1>3 DEF Shelf
<1>6. Names = Promised!TableNames /\ CorpusNames = Promised!CorpusTables
  BY DEF Names, CorpusNames, Promised!TableNames, Promised!CorpusTables, Promised!PaperTables
<1>7. Promised!ClearCorpus(c)
  BY <1>1, <1>5, <1>6 DEF Promised!ClearCorpus, Shelf, ShelfOf, Got
<1>8. NoNews
  BY <1>1, <1>2 DEF NoNews, Corpora, CodeTables, Names, CorpusNames
<1> QED
  BY <1>4, <1>7, <1>8

\* The loop over one paper is its one turn.
LEMMA FoldOne ==
  ASSUME NEW id
  PROVE  FoldLeft(WithoutPaper, tables, <<id>>) = WithoutPaper(tables, id)
<1> DEFINE Rule(iter) == iter = [s \in SUBSET {1} |->
                                   IF s = {} THEN tables ELSE WithoutPaper(iter[s \ {Max(s)}], <<id>>[Max(s)])]
           chosen == CHOOSE iter : Rule(iter)
           found == [s \in SUBSET {1} |-> IF s = {} THEN tables ELSE WithoutPaper(tables, id)]
<1>1. DOMAIN <<id>> = {1} /\ <<id>>[1] = id
  OBVIOUS
<1>2. FoldLeft(WithoutPaper, tables, <<id>>) = chosen[{1}]
  BY <1>1 DEF FoldLeft, MapThenFoldSet
<1>3. Max({1}) = 1 /\ {1} \ {1} = {}
  BY DEF Max
<1>4. SUBSET {1} = {{}, {1}}
  OBVIOUS
<1>5. Rule(found)
  <2>1. \A s \in SUBSET {1} : found[s] =
          IF s = {} THEN tables ELSE WithoutPaper(found[s \ {Max(s)}], <<id>>[Max(s)])
    <3>1. found[{}] = tables /\ found[{1}] = WithoutPaper(tables, id)
      BY <1>4
    <3> HIDE DEF found
    <3>2. <<id>>[Max({1})] = id /\ {1} \ {Max({1})} = {}
      BY <1>1, <1>3
    <3>3. found[{1}] = WithoutPaper(found[{1} \ {Max({1})}], <<id>>[Max({1})])
      BY <3>1, <3>2
    <3> QED
      BY <1>4, <3>1, <3>3
  <2>2. found = [s \in SUBSET {1} |-> found[s]]
    OBVIOUS
  <2> HIDE DEF found
  <2> QED
    BY <2>1, <2>2
<1> HIDE DEF found
<1>6. Rule(chosen)
  BY <1>5
<1> HIDE DEF chosen
<1>7. chosen[{1}] = WithoutPaper(chosen[{}], id) /\ chosen[{}] = tables
  BY <1>1, <1>3, <1>4, <1>6
<1> QED
  BY <1>2, <1>7

LEMMA ReplaceStep ==
  ASSUME TablesOK, NEW c, CallFits(c), DeleteSeedPapers(c)
  PROVE  TablesOK' /\ Promised!ReplaceSeedPapers(c) /\ NoNews
<1>1. PICK id : c.op = "replace" /\ c.ids = <<id>>
  BY DEF CallFits, DeleteSeedPapers
<1>2. tables' = WithoutPaper(tables, id)
  BY <1>1, FoldOne DEF DeleteSeedPapers
<1> DEFINE rows == {e.row : e \in {f \in ToSet(tables["papers"]) : f.key = id}}
           owners == {id} \cup ({p.id_slug : p \in rows} \ {None})
           stale == {e.key : e \in {f \in ToSet(tables["claims"]) : f.row.paper_id \in owners}}
           papers == ShelfOf(tables["papers"])
           claims == ShelfOf(tables["claims"])
           owners2 == {id} \cup ({papers[i].id_slug : i \in {id} \cap DOMAIN papers} \ {None})
           stale2 == {k \in DOMAIN claims : claims[k].paper_id \in owners2}
<1>3. tables' = [n \in Names |->
                   CASE n \in {"claims", "claim_views"} -> Deleted(tables[n], stale)
                     [] n \in {"papers", "cirs", "sources", "rendered_pdfs"} -> Deleted(tables[n], {id})
                     [] OTHER -> tables[n]]
  BY <1>2 DEF WithoutPaper
<1>4. IsTable(tables["papers"]) /\ IsTable(tables["claims"])
  BY DEF TablesOK, Names, CorpusNames
<1>5. owners = owners2
  <2>1. {p.id_slug : p \in rows} = {papers[i].id_slug : i \in {id} \cap DOMAIN papers}
    <3>1. \A p \in rows : id \in DOMAIN papers /\ p = papers[id]
      BY <1>4, ShelfRow
    <3>2. id \in DOMAIN papers => papers[id] \in rows
      <4> SUFFICES ASSUME id \in DOMAIN papers PROVE papers[id] \in rows
        OBVIOUS
      <4>1. PICK e \in ToSet(tables["papers"]) : e.key = id
        BY HasKey
      <4> QED
        BY <1>4, <4>1, ShelfRow
    <3> HIDE DEF rows, papers
    <3>3. \A x : x \in {p.id_slug : p \in rows} <=> id \in DOMAIN papers /\ x = papers[id].id_slug
      BY <3>1, <3>2
    <3> QED
      BY <3>3
  <2> QED
    BY <2>1
<1> HIDE DEF owners, owners2, papers
<1>6. stale = stale2
  <2>1. ASSUME NEW k PROVE k \in stale <=> k \in stale2
    <3>1. ASSUME NEW f \in ToSet(tables["claims"]) PROVE f.key \in DOMAIN claims /\ claims[f.key] = f.row
      BY <1>4, ShelfRow
    <3>2. k \in DOMAIN claims <=> \E f \in ToSet(tables["claims"]) : f.key = k
      BY HasKey
    <3> HIDE DEF claims
    <3> QED
      BY <1>5, <3>1, <3>2
  <2> QED
    BY <2>1
<1> HIDE DEF stale, stale2, claims
<1>7. /\ \A n \in Names : n \in {"claims", "claim_views"} => tables'[n] = Deleted(tables[n], stale)
      /\ \A n \in Names : n \in {"papers", "cirs", "sources", "rendered_pdfs"} => tables'[n] = Deleted(tables[n], {id})
      /\ \A n \in Names : n \notin {"claims", "claim_views", "papers", "cirs", "sources", "rendered_pdfs"} => tables'[n] = tables[n]
      /\ tables' = [n \in Names |-> tables'[n]]
  BY <1>3
<1>8. TablesOK'
  BY <1>7, DeletedRows DEF TablesOK
<1>9. /\ Names = Promised!TableNames
      /\ Promised!PaperTables = {"papers", "cirs", "sources", "rendered_pdfs"}
  BY DEF Names, CorpusNames, Promised!TableNames, Promised!CorpusTables, Promised!PaperTables
<1>10. Shelf' = [n \in Names |->
          CASE n \in {"papers", "cirs", "sources", "rendered_pdfs"} -> Promised!Dropped(Shelf[n], {id})
            [] n \in {"claims", "claim_views"} -> Promised!Dropped(Shelf[n], stale)
            [] OTHER -> Shelf[n]]
  BY <1>7, DeletedShelf DEF TablesOK, Shelf
<1>11. {c.ids[n] : n \in DOMAIN c.ids} = {id}
  BY <1>1
<1> DEFINE known == {k \in DOMAIN Shelf["claims"] : Shelf["claims"][k].paper_id \in
                       {id} \cup ({Shelf["papers"][i].id_slug : i \in {id} \cap DOMAIN Shelf["papers"]} \ {None})}
<1>12. stale = known
  BY <1>6 DEF stale2, claims, papers, owners2, Shelf, Names, CorpusNames
<1>13. Promised!ReplaceSeedPapers(c)
  <2>1. Shelf' = [n \in Promised!TableNames |->
          CASE n \in Promised!PaperTables -> Promised!Dropped(Shelf[n], {id})
            [] n \in {"claims", "claim_views"} -> Promised!Dropped(Shelf[n], known)
            [] OTHER -> Shelf[n]]
    BY <1>9, <1>10, <1>12
  <2> DEFINE ids == {c.ids[n] : n \in DOMAIN c.ids}
             owned == ids \cup ({Shelf["papers"][i].id_slug : i \in ids \cap DOMAIN Shelf["papers"]} \ {None})
             theirs == {k \in DOMAIN Shelf["claims"] : Shelf["claims"][k].paper_id \in owned}
  <2>2. Promised!OwnerKeys(ids) = owned
    BY DEF Promised!OwnerKeys, Shelf, ShelfOf, Got
  <2>3. Promised!ReplaceSeedPapers(c) <=>
          /\ c.op = "replace"
          /\ Shelf' = [n \in Promised!TableNames |->
               CASE n \in Promised!PaperTables -> Promised!Dropped(Shelf[n], ids)
                 [] n \in {"claims", "claim_views"} -> Promised!Dropped(Shelf[n],
                      {k \in DOMAIN Shelf["claims"] : Shelf["claims"][k].paper_id \in Promised!OwnerKeys(ids)})
                 [] OTHER -> Shelf[n]]
    BY DEF Promised!ReplaceSeedPapers, Shelf, ShelfOf, Got
  <2>4. theirs = known
    BY <1>11
  <2> HIDE DEF ids, owned, known
  <2>5. ids = {id}
    BY <1>11 DEF ids
  <2> QED
    BY <1>1, <2>1, <2>2, <2>3, <2>4, <2>5
<1>14. NoNews
  <2>1. \A n \in Corpora : n \in Names /\ IsTable(tables[n])
    BY DEF Corpora, TablesOK, Names, CorpusNames
  <2>2. \A n \in Corpora : ToSet(tables'[n]) \subseteq ToSet(tables[n])
    BY <1>7, <2>1, DeletedRows DEF Corpora
  <2> QED
    BY <1>7, <2>2 DEF NoNews, CodeTables, Names, CorpusNames
<1> QED
  BY <1>8, <1>13, <1>14

\* What a consume call writes: the row it read, marked.
Spent(row) == [row EXCEPT !.consumed = TRUE]
PasteCodes == ShelfOf(tables["paste_codes"])

\* The code a thread has read and not yet written is there still, spent or not.
HeldInv ==
  \A t \in Threads : held[t] # None =>
    /\ todo[t] # << >> /\ Head(todo[t]).op = "consume"
    /\ Head(todo[t]).key \in DOMAIN PasteCodes
    /\ PasteCodes[Head(todo[t]).key] \in {held[t], Spent(held[t])}

LEMMA PutStep ==
  ASSUME TablesOK, HeldInv, NEW t \in Threads, NEW c, c = Head(todo[t]), CallFits(c), PutConsumed(t, c)
  PROVE  /\ TablesOK' /\ Promised!Consume(c)
         /\ \A n \in Names \ {"paste_codes"} : tables'[n] = tables[n]
         /\ PasteCodes' = [PasteCodes EXCEPT ![c.key] = Spent(held[t])]
         /\ c.key \in DOMAIN PasteCodes /\ PasteCodes[c.key] \in {held[t], Spent(held[t])}
<1> DEFINE table == tables["paste_codes"]
           codes == ShelfOf(table)
           new == Replaced(table, c.key, Spent(held[t]))
<1>1. c.op = "consume" /\ c.table = "paste_codes" /\ c.table \in Names
  BY DEF CallFits, PutConsumed, Names
<1>2. tables' = [n \in Names |-> IF n = "paste_codes" THEN new ELSE tables[n]]
  BY <1>1 DEF PutConsumed, TablesOK, Spent
<1>3. c.key \in DOMAIN codes /\ codes[c.key] \in {held[t], Spent(held[t])}
  BY DEF PutConsumed, HeldInv, PasteCodes
<1>4. IsTable(new) /\ ShelfOf(new) = Promised!Put(codes, c.key, Spent(held[t]))
  BY <1>1, ReplacedRows, ReplacedShelf DEF TablesOK
<1> HIDE DEF new, codes
<1>5. Promised!Put(codes, c.key, Spent(held[t])) = [codes EXCEPT ![c.key] = Spent(held[t])]
  <2>1. DOMAIN codes \cup {c.key} = DOMAIN codes
    BY <1>3
  <2> QED
    BY <2>1 DEF Promised!Put
<1>6. Spent(held[t]) = Spent(codes[c.key])
  <2>1. Spent(Spent(held[t])) = Spent(held[t])
    BY DEF Spent
  <2> QED
    BY <1>3, <2>1
<1>7. TablesOK'
  BY <1>2, <1>4 DEF TablesOK
<1>8. ShelfOf(new) = IF c.key \in DOMAIN codes THEN [codes EXCEPT ![c.key].consumed = TRUE] ELSE codes
  BY <1>3, <1>4, <1>5, <1>6 DEF Spent
<1>9. Shelf' = [Shelf EXCEPT !["paste_codes"] =
                  IF c.key \in DOMAIN Shelf["paste_codes"] THEN [Shelf["paste_codes"] EXCEPT ![c.key].consumed = TRUE]
                  ELSE Shelf["paste_codes"]]
  BY <1>1, <1>2, <1>8 DEF Shelf, codes
<1>10. Promised!Consume(c)
  BY <1>1, <1>9 DEF Promised!Consume, Shelf, ShelfOf, Got
<1> QED
  BY <1>1, <1>2, <1>3, <1>4, <1>5, <1>7, <1>10 DEF PasteCodes, codes

LEMMA NothingStep ==
  ASSUME TablesOK, NEW t, NEW c, CallFits(c), TakeNothing(t, c)
  PROVE  TablesOK' /\ Promised!Consume(c) /\ NoNews
<1>1. c.op = "consume" /\ c.table = "paste_codes" /\ c.table \in Names /\ ~Has(c.table, c.key) /\ tables' = tables
  BY DEF CallFits, TakeNothing, Names
<1>2. c.key \notin DOMAIN Shelf[c.table]
  BY <1>1, HasShelf DEF Shelf
<1>3. Shelf' = Shelf /\ Shelf = [n \in Names |-> Shelf[n]]
  BY <1>1 DEF Shelf
<1>4. Shelf' = [Shelf EXCEPT ![c.table] =
                  IF c.key \in DOMAIN Shelf[c.table] THEN [Shelf[c.table] EXCEPT ![c.key].consumed = TRUE]
                  ELSE Shelf[c.table]]
  BY <1>1, <1>2, <1>3
<1>5. Promised!Consume(c)
  BY <1>1, <1>4 DEF Promised!Consume, Shelf, ShelfOf, Got
<1> QED
  BY <1>1, <1>5 DEF NoNews, TablesOK

-----------------------------------------------------------------------------
(***************************************************************************)
(* The inductive invariant.                                                *)
(***************************************************************************)
TodoOK ==
  /\ held = [t \in Threads |-> held[t]] /\ todo = [t \in Threads |-> todo[t]]
  /\ \A t \in Threads : todo[t] \in Seq(Calls)

CallOf(r) == AddCall(r.table, r.key, r.row)
Fresh(c) == c.key \notin DOMAIN ShelfOf(tables[c.table])

\* A code not yet asked for is neither stored nor about to be; one about to be
\* stored is not there yet, and one thread's alone.
CodeInv ==
  /\ \A r \in Requests \ served : IssuesCode(r) =>
       Fresh(CallOf(r)) /\ \A t \in Threads : CallOf(r) \notin ToSet(todo[t])
  /\ \A t \in Threads : \A c \in ToSet(todo[t]) : AddsCode(c) =>
       Fresh(c) /\ Len(todo[t]) = 1 /\ \A u \in Threads \ {t} : c \notin ToSet(todo[u])

\* The stored papers, claims and annotations are rows that requests brought, under
\* their ids.
BroughtInv ==
  /\ \A e \in ToSet(tables["papers"]) : e.row \in PaperRows /\ e.key = e.row.id
  /\ \A e \in ToSet(tables["claims"]) : e.row \in ClaimRows /\ e.key = e.row.id
  /\ \A e \in ToSet(tables["annotations"]) : e.row \in AnnotationRows /\ e.key = e.row.id

StoreInv == TablesOK /\ TodoOK /\ HeldInv /\ CodeInv /\ BroughtInv

\* Two requests for one code are one.
LEMMA OneRequest ==
  ASSUME NEW c \in Calls, NEW d \in Calls, AddsCode(c), AddsCode(d), c.table = d.table, c.key = d.key
  PROVE  c = d
<1>1. PICK r \in Requests : c \in ToSet(CallsOf(r))
  BY DEF Calls
<1>2. PICK q \in Requests : d \in ToSet(CallsOf(q))
  BY DEF Calls
<1>3. ASSUME NEW s \in Requests, NEW e \in ToSet(CallsOf(s)), AddsCode(e)
      PROVE  IssuesCode(s) /\ e = CallOf(s) /\ e.table = s.table /\ e.key = s.key
  <2>1. IssuesCode(s) /\ CallsOf(s) = <<CallOf(s)>>
    BY <1>3, CallsFit DEF CallOf
  <2>2. e = CallOf(s)
    BY <1>3, <2>1 DEF ToSet
  <2> QED
    BY <2>1, <2>2 DEF CallOf, AddCall
<1>4. /\ IssuesCode(r) /\ c = CallOf(r) /\ c.table = r.table /\ c.key = r.key
      /\ IssuesCode(q) /\ d = CallOf(q) /\ d.table = q.table /\ d.key = q.key
  BY <1>1, <1>2, <1>3
<1>5. r = q
  BY <1>4, RequestsAssumption DEF IssuesCode, Brings
<1> QED
  BY <1>4, <1>5

LEMMA CallTypes ==
  /\ \A c \in Calls : CallFits(c)
  /\ \A r \in Requests : IssuesCode(r) => CallOf(r) \in Calls /\ AddsCode(CallOf(r))
<1>1. \A c \in Calls : CallFits(c)
  BY CallsFit DEF Calls
<1>2. ASSUME NEW r \in Requests, IssuesCode(r) PROVE CallOf(r) \in Calls /\ AddsCode(CallOf(r))
  <2>1. CallsOf(r) = <<CallOf(r)>>
    BY <1>2, CallsFit DEF CallOf
  <2>2. CallOf(r) \in ToSet(CallsOf(r))
    BY <2>1 DEF ToSet
  <2> QED
    BY <1>2, <2>2 DEF Calls, AddsCode, CallOf, AddCall, IssuesCode
<1> QED
  BY <1>1, <1>2

LEMMA StoreInitially == Init => StoreInv
<1> SUFFICES ASSUME Init PROVE StoreInv
  OBVIOUS
<1>1. /\ tables = [n \in Names |-> << >>] /\ held = [t \in Threads |-> None]
      /\ todo = [t \in Threads |-> << >>]
  BY DEF Init, StoreInit
<1>2. IsTable(<< >>) /\ ToSet(<< >>) = {}
  BY DEF IsTable, Keyed, ToSet
<1>3. TablesOK /\ TodoOK /\ HeldInv
  BY <1>1, <1>2 DEF TablesOK, TodoOK, HeldInv
<1>4. BroughtInv
  BY <1>1, <1>2 DEF BroughtInv, Names, CorpusNames
<1>5. CodeInv
  <2>1. \A t \in Threads : ToSet(todo[t]) = {}
    BY <1>1, <1>2
  <2>2. ASSUME NEW r \in Requests, IssuesCode(r) PROVE Fresh(CallOf(r))
    <3>1. CallOf(r).table \in Names
      BY <2>2 DEF CallOf, AddCall, IssuesCode, CodeTables, Names
    <3>2. tables[CallOf(r).table] = << >>
      BY <1>1, <3>1
    <3> QED
      BY <1>2, <3>2, HasKey DEF Fresh
  <2> QED
    BY <2>1, <2>2 DEF CodeInv
<1> QED
  BY <1>3, <1>4, <1>5 DEF StoreInv

LEMMA HeadTail ==
  ASSUME NEW s \in Seq(Calls), s # << >>
  PROVE  /\ Head(s) \in Calls /\ Head(s) \in ToSet(s)
         /\ Tail(s) \in Seq(Calls) /\ ToSet(Tail(s)) \subseteq ToSet(s)
         /\ Len(s) = 1 => Tail(s) = << >>
<1>1. /\ Len(s) \in Nat \ {0} /\ DOMAIN s = 1 .. Len(s) /\ Head(s) = s[1]
      /\ Tail(s) \in Seq(Calls) /\ Len(Tail(s)) = Len(s) - 1 /\ DOMAIN Tail(s) = 1 .. Len(s) - 1
      /\ \A n \in 1 .. Len(s) - 1 : Tail(s)[n] = s[n + 1]
  OBVIOUS
<1>2. \A n \in DOMAIN Tail(s) : Tail(s)[n] \in ToSet(s)
  BY <1>1 DEF ToSet
<1>3. s[1] \in Calls /\ s[1] \in ToSet(s)
  BY <1>1 DEF ToSet
<1> QED
  BY <1>1, <1>2, <1>3 DEF ToSet

\* Which tables of codes a call can change, and how.
LEMMA EndsEffect ==
  ASSUME StoreInv, NEW t \in Threads, todo[t] # << >>, NEW c, c = Head(todo[t]), Ends(t, c)
  PROVE  /\ TablesOK' /\ BroughtInv' /\ held' = [held EXCEPT ![t] = None]
         /\ \/ Promised!Add(c) \/ Promised!Remove(c) \/ Promised!BumpClaimView(c) \/ Promised!RevokeOrcidKey(c)
            \/ Promised!Consume(c) \/ Promised!ClearCorpus(c) \/ Promised!ReplaceSeedPapers(c)
         /\ \/ \A n \in CodeTables : tables'[n] = tables[n]
            \/ /\ AddsCode(c)
               /\ \A n \in CodeTables \ {c.table} : tables'[n] = tables[n]
               /\ ShelfOf(tables'[c.table]) = Promised!Put(ShelfOf(tables[c.table]), c.key, c.row)
            \/ /\ tables'["challenges"] = tables["challenges"]
               /\ c.key \in DOMAIN PasteCodes /\ PasteCodes[c.key] \in {held[t], Spent(held[t])}
               /\ PasteCodes' = [PasteCodes EXCEPT ![c.key] = Spent(held[t])]
<1>1. c \in Calls /\ CallFits(c)
  BY HeadTail, CallTypes DEF StoreInv, TodoOK
<1>2. c.op # "consume" => held[t] = None
  BY DEF StoreInv, HeldInv
<1>3. held[t] = None => held = [held EXCEPT ![t] = None]
  BY DEF StoreInv, TodoOK
<1>4. \A n \in CodeTables \cup Corpora : n \in Names
  BY DEF CodeTables, Corpora, Names, CorpusNames
<1>5. ASSUME NoNews PROVE BroughtInv'
  BY <1>5 DEF NoNews, BroughtInv, Corpora, StoreInv
<1>6. CASE InsertOrReplace(c)
  <2>1. /\ TablesOK' /\ Promised!Add(c) /\ \A n \in Names \ {c.table} : tables'[n] = tables[n]
        /\ c.table \in Names /\ ToSet(tables'[c.table]) \subseteq ToSet(tables[c.table]) \cup {Pair(c.key, c.row)}
        /\ ShelfOf(tables'[c.table]) = Promised!Put(ShelfOf(tables[c.table]), c.key, c.row)
    BY <1>1, <1>6, AddStep DEF StoreInv
  <2>2. c.op = "add" /\ held' = held
    BY <1>6 DEF InsertOrReplace
  <2>3. BroughtInv'
    <3>1. "papers" \in Names /\ "claims" \in Names /\ "annotations" \in Names
      BY DEF Names, CorpusNames
    <3>2. ASSUME NEW e \in ToSet(tables'["papers"]) PROVE e.row \in PaperRows /\ e.key = e.row.id
      <4>1. e \in ToSet(tables["papers"]) \/ (c.table = "papers" /\ e = Pair(c.key, c.row))
        BY <2>1, <3>1, <3>2
      <4> QED
        BY <1>1, <2>2, <4>1 DEF StoreInv, BroughtInv, CallFits, Pair
    <3>3. ASSUME NEW e \in ToSet(tables'["claims"]) PROVE e.row \in ClaimRows /\ e.key = e.row.id
      <4>1. e \in ToSet(tables["claims"]) \/ (c.table = "claims" /\ e = Pair(c.key, c.row))
        BY <2>1, <3>1, <3>3
      <4> QED
        BY <1>1, <2>2, <4>1 DEF StoreInv, BroughtInv, CallFits, Pair
    <3>4. ASSUME NEW e \in ToSet(tables'["annotations"]) PROVE e.row \in AnnotationRows /\ e.key = e.row.id
      <4>1. e \in ToSet(tables["annotations"]) \/ (c.table = "annotations" /\ e = Pair(c.key, c.row))
        BY <2>1, <3>1, <3>4
      <4> QED
        BY <1>1, <2>2, <4>1 DEF StoreInv, BroughtInv, CallFits, Pair
    <3> QED
      BY <3>2, <3>3, <3>4 DEF BroughtInv
  <2>4. CASE c.table \in CodeTables
    BY <1>2, <1>3, <1>4, <2>1, <2>2, <2>3, <2>4 DEF AddsCode
  <2>5. CASE c.table \notin CodeTables
    BY <1>2, <1>3, <1>4, <2>1, <2>2, <2>3, <2>5
  <2> QED
    BY <2>4, <2>5
<1>7. CASE DeleteRow(c)
  BY <1>1, <1>2, <1>3, <1>5, <1>7, RemoveStep DEF StoreInv, DeleteRow, NoNews
<1>8. CASE Upsert(c)
  BY <1>1, <1>2, <1>3, <1>5, <1>8, BumpStep DEF StoreInv, Upsert, NoNews
<1>9. CASE UpdateUnrevoked(c)
  BY <1>1, <1>2, <1>3, <1>5, <1>9, RevokeStep DEF StoreInv, UpdateUnrevoked, NoNews
<1>10. CASE TakeNothing(t, c)
  BY <1>1, <1>2, <1>3, <1>5, <1>10, NothingStep DEF StoreInv, TakeNothing, NoNews
<1>11. CASE PutConsumed(t, c)
  <2>1. /\ TablesOK' /\ Promised!Consume(c)
        /\ \A n \in Names \ {"paste_codes"} : tables'[n] = tables[n]
        /\ PasteCodes' = [PasteCodes EXCEPT ![c.key] = Spent(held[t])]
        /\ c.key \in DOMAIN PasteCodes /\ PasteCodes[c.key] \in {held[t], Spent(held[t])}
    BY <1>1, <1>11, PutStep DEF StoreInv
  <2>2. "papers" \in Names /\ "claims" \in Names /\ "annotations" \in Names /\ "challenges" \in Names
    BY DEF Names, CorpusNames
  <2>3. BroughtInv'
    BY <2>1, <2>2 DEF BroughtInv, StoreInv
  <2>4. held' = [held EXCEPT ![t] = None]
    BY <1>11 DEF PutConsumed
  <2> QED
    BY <2>1, <2>2, <2>3, <2>4
<1>12. CASE DeleteCorpus(c)
  BY <1>1, <1>2, <1>3, <1>5, <1>12, ClearStep DEF StoreInv, DeleteCorpus, NoNews
<1>13. CASE DeleteSeedPapers(c)
  BY <1>1, <1>2, <1>3, <1>5, <1>13, ReplaceStep DEF StoreInv, DeleteSeedPapers, NoNews
<1> QED
  BY <1>6, <1>7, <1>8, <1>9, <1>10, <1>11, <1>12, <1>13 DEF Ends

LEMMA EndsInv ==
  ASSUME StoreInv, NEW t \in Threads, todo[t] # << >>, NEW c, c = Head(todo[t]), Ends(t, c),
         todo' = [todo EXCEPT ![t] = Tail(@)], served' = served
  PROVE  StoreInv'
<1>1. /\ TablesOK' /\ BroughtInv' /\ held' = [held EXCEPT ![t] = None]
      /\ \/ \A n \in CodeTables : tables'[n] = tables[n]
         \/ /\ AddsCode(c)
            /\ \A n \in CodeTables \ {c.table} : tables'[n] = tables[n]
            /\ ShelfOf(tables'[c.table]) = Promised!Put(ShelfOf(tables[c.table]), c.key, c.row)
         \/ /\ tables'["challenges"] = tables["challenges"]
            /\ c.key \in DOMAIN PasteCodes /\ PasteCodes[c.key] \in {held[t], Spent(held[t])}
            /\ PasteCodes' = [PasteCodes EXCEPT ![c.key] = Spent(held[t])]
  BY EndsEffect
<1>2. /\ c \in Calls /\ c \in ToSet(todo[t]) /\ Tail(todo[t]) \in Seq(Calls)
      /\ ToSet(Tail(todo[t])) \subseteq ToSet(todo[t])
      /\ Len(todo[t]) = 1 => Tail(todo[t]) = << >>
  BY HeadTail DEF StoreInv, TodoOK
<1>3. /\ todo' = [u \in Threads |-> IF u = t THEN Tail(todo[t]) ELSE todo[u]]
      /\ held' = [u \in Threads |-> IF u = t THEN None ELSE held[u]]
  BY <1>1 DEF StoreInv, TodoOK
<1>4. TodoOK'
  BY <1>2, <1>3 DEF StoreInv, TodoOK
<1>5. \A u \in Threads : ToSet(todo'[u]) \subseteq ToSet(todo[u])
  BY <1>2, <1>3
<1>6. ASSUME NEW d \in Calls, AddsCode(d), Fresh(d), d # c \/ ~AddsCode(c) PROVE Fresh(d)'
  <2>1. d.table \in CodeTables
    BY <1>6 DEF AddsCode
  <2>2. CASE \A n \in CodeTables : tables'[n] = tables[n]
    BY <1>6, <2>1, <2>2 DEF Fresh
  <2>3. CASE /\ AddsCode(c)
             /\ \A n \in CodeTables \ {c.table} : tables'[n] = tables[n]
             /\ ShelfOf(tables'[c.table]) = Promised!Put(ShelfOf(tables[c.table]), c.key, c.row)
    <3>1. CASE d.table # c.table
      BY <1>6, <2>1, <2>3, <3>1 DEF Fresh
    <3>2. CASE d.table = c.table
      <4>1. d.key # c.key
        BY <1>2, <1>6, <2>3, <3>2, OneRequest
      <4>2. d.key \notin DOMAIN ShelfOf(tables'[c.table])
        BY <1>6, <2>3, <3>2, <4>1 DEF Fresh, Promised!Put
      <4> QED
        BY <3>2, <4>2 DEF Fresh
    <3> QED
      BY <3>1, <3>2
  <2>4. CASE /\ tables'["challenges"] = tables["challenges"]
             /\ c.key \in DOMAIN PasteCodes /\ PasteCodes' = [PasteCodes EXCEPT ![c.key] = Spent(held[t])]
    <3>1. DOMAIN PasteCodes' = DOMAIN PasteCodes
      BY <2>4
    <3> QED
      BY <1>6, <2>1, <2>4, <3>1 DEF Fresh, CodeTables, PasteCodes
  <2> QED
    BY <1>1, <2>2, <2>3, <2>4
<1>7. CodeInv'
  <2>1. ASSUME NEW r \in Requests \ served, IssuesCode(r)
        PROVE  Fresh(CallOf(r))' /\ \A u \in Threads : CallOf(r) \notin ToSet(todo'[u])
    <3>1. Fresh(CallOf(r)) /\ \A u \in Threads : CallOf(r) \notin ToSet(todo[u])
      BY <2>1 DEF StoreInv, CodeInv
    <3>2. CallOf(r) \in Calls /\ AddsCode(CallOf(r)) /\ CallOf(r) # c
      BY <1>2, <2>1, <3>1, CallTypes
    <3> QED
      BY <1>5, <1>6, <3>1, <3>2
  <2>2. ASSUME NEW u \in Threads, NEW d \in ToSet(todo'[u]), AddsCode(d)
        PROVE  Fresh(d)' /\ Len(todo'[u]) = 1 /\ \A v \in Threads \ {u} : d \notin ToSet(todo'[v])
    <3>1. d \in ToSet(todo[u])
      BY <1>5, <2>2
    <3>2. Fresh(d) /\ Len(todo[u]) = 1 /\ \A v \in Threads \ {u} : d \notin ToSet(todo[v])
      BY <2>2, <3>1 DEF StoreInv, CodeInv
    <3>3. u # t
      <4>1. ToSet(<< >>) = {}
        BY DEF ToSet
      <4> QED
        BY <1>2, <1>3, <2>2, <3>2, <4>1
    <3>4. d \in Calls
      BY <3>1 DEF StoreInv, TodoOK, ToSet
    <3>5. d # c
      BY <1>2, <3>2, <3>3
    <3>6. Fresh(d)'
      BY <1>6, <2>2, <3>2, <3>4, <3>5
    <3> QED
      BY <1>3, <1>5, <3>2, <3>3, <3>6
  <2> QED
    BY <2>1, <2>2 DEF CodeInv, CallOf, IssuesCode, AddsCode
<1>8. HeldInv'
  <2> SUFFICES ASSUME NEW u \in Threads, held'[u] # None
               PROVE  /\ todo'[u] # << >> /\ Head(todo'[u]).op = "consume"
                      /\ Head(todo'[u]).key \in DOMAIN PasteCodes'
                      /\ PasteCodes'[Head(todo'[u]).key] \in {held'[u], Spent(held'[u])}
    BY DEF HeldInv, Spent
  <2>1. u # t /\ held'[u] = held[u] /\ todo'[u] = todo[u]
    BY <1>3
  <2> DEFINE k == Head(todo[u]).key
             h == held[u]
  <2>2. /\ todo[u] # << >> /\ Head(todo[u]).op = "consume"
        /\ k \in DOMAIN PasteCodes /\ PasteCodes[k] \in {h, Spent(h)}
    BY <2>1 DEF StoreInv, HeldInv
  <2> HIDE DEF k, h
  <2>3. k \in DOMAIN PasteCodes' /\ PasteCodes'[k] \in {h, Spent(h)}
    <3>1. CASE \A n \in CodeTables : tables'[n] = tables[n]
      BY <2>2, <3>1 DEF PasteCodes, CodeTables
    <3>2. CASE /\ AddsCode(c)
               /\ \A n \in CodeTables \ {c.table} : tables'[n] = tables[n]
               /\ ShelfOf(tables'[c.table]) = Promised!Put(ShelfOf(tables[c.table]), c.key, c.row)
      <4>1. CASE c.table # "paste_codes"
        BY <2>2, <3>2, <4>1 DEF PasteCodes, CodeTables
      <4>2. CASE c.table = "paste_codes"
        <5>1. c.key \notin DOMAIN PasteCodes
          BY <1>2, <3>2, <4>2 DEF StoreInv, CodeInv, Fresh, PasteCodes
        <5>2. PasteCodes' = Promised!Put(PasteCodes, c.key, c.row)
          BY <3>2, <4>2 DEF PasteCodes
        <5> QED
          BY <2>2, <5>1, <5>2 DEF Promised!Put
      <4> QED
        BY <4>1, <4>2
    <3>3. CASE /\ c.key \in DOMAIN PasteCodes /\ PasteCodes[c.key] \in {held[t], Spent(held[t])}
               /\ PasteCodes' = [PasteCodes EXCEPT ![c.key] = Spent(held[t])]
      <4>1. CASE k # c.key
        BY <2>2, <3>3, <4>1
      <4>2. CASE k = c.key
        <5>1. Spent(Spent(h)) = Spent(h) /\ Spent(Spent(held[t])) = Spent(held[t])
          BY DEF Spent
        <5>2. PasteCodes'[k] = Spent(held[t]) /\ k \in DOMAIN PasteCodes'
          BY <3>3, <4>2
        <5>3. Spent(PasteCodes[k]) = Spent(held[t]) /\ Spent(PasteCodes[k]) = Spent(h)
          BY <2>2, <3>3, <4>2, <5>1
        <5> QED
          BY <5>2, <5>3
      <4> QED
        BY <4>1, <4>2
    <3> QED
      BY <1>1, <3>1, <3>2, <3>3
  <2> QED
    BY <2>1, <2>2, <2>3 DEF k, h
<1> QED
  BY <1>1, <1>4, <1>7, <1>8 DEF StoreInv

LEMMA TakeInv ==
  ASSUME StoreInv, NEW t \in Threads, todo[t] # << >>, TakeRow(t, Head(todo[t])),
         todo' = todo, served' = served
  PROVE  StoreInv'
<1> DEFINE c == Head(todo[t])
<1>1. c \in Calls /\ CallFits(c)
  BY HeadTail, CallTypes DEF StoreInv, TodoOK
<1>2. /\ c.op = "consume" /\ c.table = "paste_codes" /\ Has("paste_codes", c.key) /\ tables' = tables
      /\ held' = [held EXCEPT ![t] = Got("paste_codes", c.key)]
  BY <1>1 DEF TakeRow, CallFits
<1>3. c.key \in DOMAIN PasteCodes /\ Got("paste_codes", c.key) = PasteCodes[c.key]
  BY <1>2, HasShelf DEF Names, PasteCodes
<1>4. held' = [u \in Threads |-> IF u = t THEN PasteCodes[c.key] ELSE held[u]]
  BY <1>2, <1>3 DEF StoreInv, TodoOK
<1>5. TablesOK' /\ TodoOK' /\ BroughtInv' /\ CodeInv' /\ PasteCodes' = PasteCodes
  BY <1>2, <1>4 DEF StoreInv, TablesOK, TodoOK, BroughtInv, CodeInv, Fresh, PasteCodes
<1>6. HeldInv'
  <2> HIDE DEF c
  <2> SUFFICES ASSUME NEW u \in Threads, held'[u] # None
               PROVE  /\ todo[u] # << >> /\ Head(todo[u]).op = "consume"
                      /\ Head(todo[u]).key \in DOMAIN PasteCodes
                      /\ PasteCodes[Head(todo[u]).key] \in {held'[u], Spent(held'[u])}
    BY <1>5 DEF HeldInv, Spent
  <2>1. CASE u = t
    BY <1>2, <1>3, <1>4, <2>1 DEF c
  <2>2. CASE u # t
    <3>1. held'[u] = held[u]
      BY <1>4, <2>2
    <3> QED
      BY <3>1 DEF StoreInv, HeldInv
  <2> QED
    BY <2>1, <2>2
<1> QED
  BY <1>5, <1>6 DEF StoreInv

LEMMA ReceiveInv ==
  ASSUME StoreInv, NEW t \in Threads, NEW r \in Requests, Receive(t, r)
  PROVE  StoreInv'
<1>1. /\ todo[t] = << >> /\ r \notin served /\ tables' = tables /\ held' = held
      /\ todo' = [u \in Threads |-> IF u = t THEN CallsOf(r) ELSE todo[u]]
      /\ served' = served \cup {r}
  BY DEF Receive, Idle, StoreInv, TodoOK
<1>2. /\ CallsOf(r) \in Seq(Calls)
      /\ \A c \in ToSet(CallsOf(r)) : AddsCode(c) => IssuesCode(r)
      /\ IssuesCode(r) => CallsOf(r) = <<CallOf(r)>>
  BY CallsFit DEF CallOf
<1>3. ASSUME NEW c \in ToSet(CallsOf(r)), AddsCode(c)
      PROVE  IssuesCode(r) /\ c = CallOf(r) /\ Len(CallsOf(r)) = 1
  <2>1. IssuesCode(r) /\ CallsOf(r) = <<CallOf(r)>>
    BY <1>2, <1>3
  <2> QED
    BY <1>3, <2>1 DEF ToSet
<1>4. TablesOK' /\ TodoOK' /\ BroughtInv'
  BY <1>1, <1>2 DEF StoreInv, TablesOK, TodoOK, BroughtInv
<1>5. HeldInv'
  <2>1. PasteCodes' = PasteCodes
    BY <1>1 DEF PasteCodes
  <2>2. \A u \in Threads : held[u] # None => todo'[u] = todo[u]
    BY <1>1 DEF StoreInv, HeldInv
  <2> QED
    BY <1>1, <2>1, <2>2 DEF StoreInv, HeldInv, Spent
<1>6. CodeInv'
  <2>1. ASSUME NEW q \in Requests \ served', IssuesCode(q)
        PROVE  Fresh(CallOf(q))' /\ \A u \in Threads : CallOf(q) \notin ToSet(todo'[u])
    <3>1. q \in Requests \ served /\ q # r
      BY <1>1, <2>1
    <3>2. Fresh(CallOf(q)) /\ \A u \in Threads : CallOf(q) \notin ToSet(todo[u])
      BY <2>1, <3>1 DEF StoreInv, CodeInv
    <3>3. CallOf(q) \notin ToSet(CallsOf(r))
      <4> SUFFICES ASSUME CallOf(q) \in ToSet(CallsOf(r)) PROVE FALSE
        OBVIOUS
      <4>1. AddsCode(CallOf(q))
        BY <2>1, CallTypes
      <4>2. IssuesCode(r) /\ CallOf(q) = CallOf(r)
        BY <1>3, <4>1
      <4>3. q.table = r.table /\ q.key = r.key
        BY <4>2 DEF CallOf, AddCall
      <4> QED
        BY <2>1, <3>1, <4>2, <4>3, RequestsAssumption DEF IssuesCode, Brings
    <3> QED
      BY <1>1, <3>2, <3>3 DEF Fresh
  <2>2. ASSUME NEW u \in Threads, NEW d \in ToSet(todo'[u]), AddsCode(d)
        PROVE  Fresh(d)' /\ Len(todo'[u]) = 1 /\ \A v \in Threads \ {u} : d \notin ToSet(todo'[v])
    <3>1. CASE u = t
      <4>1. IssuesCode(r) /\ d = CallOf(r) /\ Len(todo'[u]) = 1
        BY <1>1, <1>3, <2>2, <3>1
      <4>2. Fresh(CallOf(r)) /\ \A v \in Threads : CallOf(r) \notin ToSet(todo[v])
        BY <1>1, <4>1 DEF StoreInv, CodeInv
      <4> QED
        BY <1>1, <3>1, <4>1, <4>2 DEF Fresh
    <3>2. CASE u # t
      <4>1. d \in ToSet(todo[u])
        BY <1>1, <2>2, <3>2
      <4>2. Fresh(d) /\ Len(todo[u]) = 1 /\ \A v \in Threads \ {u} : d \notin ToSet(todo[v])
        BY <2>2, <4>1 DEF StoreInv, CodeInv
      <4>3. d \notin ToSet(CallsOf(r))
        <5> SUFFICES ASSUME d \in ToSet(CallsOf(r)) PROVE FALSE
          OBVIOUS
        <5>1. IssuesCode(r) /\ d = CallOf(r)
          BY <1>3, <2>2
        <5> QED
          BY <1>1, <4>1, <5>1 DEF StoreInv, CodeInv
      <4> QED
        BY <1>1, <3>2, <4>2, <4>3 DEF Fresh
    <3> QED
      BY <3>1, <3>2
  <2> QED
    BY <2>1, <2>2 DEF CodeInv, CallOf, IssuesCode, AddsCode
<1> QED
  BY <1>4, <1>5, <1>6 DEF StoreInv

LEMMA CrashInv == StoreInv /\ Crash => StoreInv'
<1> SUFFICES ASSUME StoreInv, Crash PROVE StoreInv'
  OBVIOUS
<1>1. /\ todo' = [t \in Threads |-> << >>] /\ held' = [t \in Threads |-> None]
      /\ tables' = tables /\ served' = served
  BY DEF Crash
<1>2. ToSet(<< >>) = {}
  BY DEF ToSet
<1>3. TablesOK' /\ TodoOK' /\ BroughtInv' /\ HeldInv'
  <2>1. TablesOK' /\ BroughtInv'
    BY <1>1 DEF StoreInv, TablesOK, BroughtInv
  <2>2. TodoOK'
    BY <1>1 DEF TodoOK
  <2>3. \A t \in Threads : held'[t] = None
    BY <1>1
  <2>4. HeldInv'
    BY <2>3 DEF HeldInv
  <2> QED
    BY <2>1, <2>2, <2>4
<1>4. CodeInv'
  <2>1. \A t \in Threads : ToSet(todo'[t]) = {}
    BY <1>1, <1>2
  <2>2. ASSUME NEW r \in Requests \ served, IssuesCode(r) PROVE Fresh(CallOf(r))'
    BY <1>1, <2>2 DEF StoreInv, CodeInv, Fresh
  <2> QED
    BY <1>1, <2>1, <2>2 DEF CodeInv
<1> QED
  BY <1>3, <1>4 DEF StoreInv

LEMMA StoreStill ==
  ASSUME StoreInv, UNCHANGED <<tables, held, todo, served>> PROVE StoreInv'
  BY DEF StoreInv, TablesOK, TodoOK, BroughtInv, HeldInv, CodeInv, Fresh, PasteCodes, CallOf

LEMMA StoreKept == StoreInv /\ [Next]_vars => StoreInv'
<1> SUFFICES ASSUME StoreInv, [Next]_vars PROVE StoreInv'
  OBVIOUS
<1>1. ASSUME NEW t \in Threads, CallStore(t) PROVE StoreInv'
  <2>1. CASE Ends(t, Head(todo[t])) /\ todo' = [todo EXCEPT ![t] = Tail(@)]
    BY <1>1, <2>1, EndsInv DEF CallStore, Idle
  <2>2. CASE TakeRow(t, Head(todo[t])) /\ UNCHANGED <<todo, last>>
    BY <1>1, <2>2, TakeInv DEF CallStore, Idle
  <2> QED
    BY <1>1, <2>1, <2>2 DEF CallStore
<1>2. CASE NextDay
  BY <1>2, StoreStill DEF NextDay
<1>3. CASE UNCHANGED vars
  BY <1>3, StoreStill DEF vars
<1> QED
  BY <1>1, <1>2, <1>3, ReceiveInv, CrashInv DEF Next

LEMMA StoreAlways == Spec => []StoreInv
  BY StoreInitially, StoreKept, PTL DEF Spec

-----------------------------------------------------------------------------
LEMMA PromisedInitially == Init => Promised!Init
<1> SUFFICES ASSUME Init PROVE Promised!Init
  OBVIOUS
<1>1. tables = [n \in Names |-> << >>] /\ last = [odd |-> FALSE, call |-> None]
  BY DEF Init, StoreInit
<1>2. ToSet(<< >>) = {}
  BY DEF ToSet
<1>3. ShelfOf(<< >>) = << >>
  BY <1>2 DEF ShelfOf
<1>4. Shelf = [n \in Promised!TableNames |-> << >>]
  BY <1>1, <1>3 DEF Shelf, Names, CorpusNames, Promised!TableNames, Promised!CorpusTables, Promised!PaperTables
<1> QED
  BY <1>1, <1>4 DEF Promised!Init, Shelf, ShelfOf, Got

LEMMA PromisedStep ==
  ASSUME StoreInv, [Next]_vars
  PROVE  Promised!Next \/ UNCHANGED <<Shelf, last>>
<1>1. ASSUME UNCHANGED <<tables, last>> PROVE UNCHANGED <<Shelf, last>>
  BY <1>1 DEF Shelf
<1>2. ASSUME NEW t \in Threads, CallStore(t) PROVE Promised!Next \/ UNCHANGED <<Shelf, last>>
  <2>1. CASE TakeRow(t, Head(todo[t])) /\ UNCHANGED <<todo, last>>
    BY <1>1, <2>1 DEF TakeRow
  <2>2. CASE /\ Ends(t, Head(todo[t])) /\ todo' = [todo EXCEPT ![t] = Tail(@)]
             /\ last' = [odd |-> ~last.odd, call |-> Head(todo[t])]
    <3>0. PICK c : c = Head(todo[t])
      OBVIOUS
    <3>1. todo[t] # << >>
      BY <1>2 DEF CallStore, Idle
    <3>2. c \in Calls
      BY <3>0, <3>1, HeadTail DEF StoreInv, TodoOK
    <3>3. \/ Promised!Add(c) \/ Promised!Remove(c) \/ Promised!BumpClaimView(c) \/ Promised!RevokeOrcidKey(c)
          \/ Promised!Consume(c) \/ Promised!ClearCorpus(c) \/ Promised!ReplaceSeedPapers(c)
      BY <2>2, <3>0, <3>1, EndsEffect
    <3>4. last' = [odd |-> ~last.odd, call |-> c]
      BY <2>2, <3>0
    <3> QED
      BY <3>2, <3>3, <3>4 DEF Promised!Next, Calls
  <2> QED
    BY <1>2, <2>1, <2>2 DEF CallStore
<1>3. ASSUME NEW t \in Threads, NEW r \in Requests, Receive(t, r) PROVE UNCHANGED <<Shelf, last>>
  BY <1>1, <1>3 DEF Receive
<1>4. CASE Crash
  BY <1>1, <1>4 DEF Crash
<1>5. CASE NextDay
  BY <1>1, <1>5 DEF NextDay
<1>6. CASE UNCHANGED vars
  BY <1>1, <1>6 DEF vars
<1> QED
  BY <1>2, <1>3, <1>4, <1>5, <1>6 DEF Next

\* SqliteStore implements MemoryStore (server/store/sqlite.py, memory.py): under
\* any requests, interleaved call by call and cut short by crashes, every call has
\* on the tables the effect it has on the dictionaries, and none has any other. A
\* code consumed under two locks is consumed in one step.
THEOREM StoreRefinement == Spec => ImplementsDicts
<1>1. Init => Promised!Init
  BY PromisedInitially
<1>2. StoreInv /\ [Next]_vars =>
        [Promised!Next]_<<[t \in Names |-> [k \in {e.key : e \in ToSet(tables[t])} |-> Got(t, k)]], last>>
  BY PromisedStep DEF Shelf, ShelfOf, Got
<1> QED
  BY <1>1, <1>2, StoreAlways, PTL DEF Spec, ImplementsDicts, Promised!Spec

\* No table of the SQLite file ever holds two rows with one key: INSERT OR REPLACE
\* and the upsert of the view counters never double a row, whatever interleaves.
THEOREM PrimaryKeys ==
  Spec => [](\A t \in Names : \A m, n \in DOMAIN tables[t] : tables[t][m].key = tables[t][n].key => m = n)
<1>1. StoreInv => \A t \in Names : \A m, n \in DOMAIN tables[t] : tables[t][m].key = tables[t][n].key => m = n
  BY DEF StoreInv, TablesOK, IsTable, Keyed
<1> QED
  BY <1>1, StoreAlways, PTL

-----------------------------------------------------------------------------
(***************************************************************************)
(* The views of one corpus, whatever rows it lists.                        *)
(***************************************************************************)
Sound(s) ==
  /\ s.papers \in Seq(PaperRows) /\ s.claims \in Seq(ClaimRows)
  /\ \A m, n \in DOMAIN s.claims : s.claims[m].id = s.claims[n].id => m = n

LEMMA CorpusSound ==
  ASSUME StoreInv PROVE Sound(Corpus)
<1>1. ASSUME NEW name \in {"papers", "claims"}
      PROVE  /\ DOMAIN Listed(name) = 1 .. Len(tables[name]) /\ Len(tables[name]) \in Nat
             /\ \A n \in 1 .. Len(tables[name]) :
                  Listed(name)[n] = tables[name][n].row /\ tables[name][n] \in ToSet(tables[name])
             /\ Keyed(tables[name]) /\ DOMAIN tables[name] = 1 .. Len(tables[name])
  <2>1. IsTable(tables[name])
    BY DEF StoreInv, TablesOK, Names, CorpusNames
  <2> QED
    BY <2>1, RowsOf DEF IsTable, Listed, ToSet
<1>2. Listed("papers") \in Seq(PaperRows)
  <2>1. \A n \in 1 .. Len(tables["papers"]) : Listed("papers")[n] \in PaperRows
    BY <1>1 DEF StoreInv, BroughtInv
  <2>2. Listed("papers") = [n \in 1 .. Len(tables["papers"]) |-> Listed("papers")[n]]
    BY <1>1 DEF Listed
  <2> QED
    BY <1>1, <2>1, <2>2
<1>3. Listed("claims") \in Seq(ClaimRows)
  <2>1. \A n \in 1 .. Len(tables["claims"]) : Listed("claims")[n] \in ClaimRows
    BY <1>1 DEF StoreInv, BroughtInv
  <2>2. Listed("claims") = [n \in 1 .. Len(tables["claims"]) |-> Listed("claims")[n]]
    BY <1>1 DEF Listed
  <2> QED
    BY <1>1, <2>1, <2>2
<1>4. ASSUME NEW m \in DOMAIN Listed("claims"), NEW n \in DOMAIN Listed("claims"),
             Listed("claims")[m].id = Listed("claims")[n].id
      PROVE  m = n
  <2>1. tables["claims"][m].key = tables["claims"][n].key
    BY <1>1, <1>4 DEF StoreInv, BroughtInv
  <2> QED
    BY <1>1, <2>1 DEF Keyed
<1> QED
  BY <1>2, <1>3, <1>4 DEF Sound, Corpus

\* A claim's owner can be read off its id.
LEMMA OwnerOfClaim ==
  ASSUME NEW c \in ClaimRows PROVE PaperIdOfClaim(c.id) = c.paper_id
<1> DEFINE id == c.id
           owner == c.paper_id
<1>1. /\ id \in Seq(ToSet(id)) /\ Len(id) > Len(owner) /\ owner = SubSeq(id, 1, Len(owner))
      /\ IsSlug(owner) \/ (Len(owner) = 1 /\ owner # <<"rrxiv">>)
  BY RowsAssumption
<1> HIDE DEF id, owner
<1>2. CASE IsSlug(owner)
  BY <1>1, <1>2 DEF PaperIdOfClaim, IsSlug, id, owner
<1>3. CASE Len(owner) = 1 /\ owner # <<"rrxiv">>
  <2>1. owner = <<id[1]>> /\ Head(id) = id[1]
    BY <1>1, <1>3
  <2>2. Len(id) > 2 => SubSeq(id, 1, 2)[1] = id[1]
    BY <1>1
  <2>3. ~(Len(id) > 2 /\ IsSlug(SubSeq(id, 1, 2)))
    BY <1>3, <2>1, <2>2 DEF IsSlug
  <2> QED
    BY <2>1, <2>3 DEF PaperIdOfClaim, id, owner
<1> QED
  BY <1>1, <1>2, <1>3

LEMMA CountedAsShown ==
  ASSUME NEW s, NEW c \in ClaimRows PROVE Counted(c, s) = Shown(c, s)
  BY OwnerOfClaim DEF Counted, Shown

LEMMA SeqPlaces ==
  ASSUME NEW S, NEW rows \in Seq(S), NEW I \in SUBSET DOMAIN rows
  PROVE  /\ DOMAIN rows = 1 .. Len(rows) /\ Len(rows) \in Nat
         /\ IsFiniteSet(I) /\ Cardinality(I) \in Nat /\ (Cardinality(I) > 0 <=> I # {})
         /\ \A n \in DOMAIN rows : rows[n] \in S
<1>1. DOMAIN rows = 1 .. Len(rows) /\ Len(rows) \in Nat
  OBVIOUS
<1>2. IsFiniteSet(I)
  <2>1. IsFiniteSet(1 .. Len(rows)) /\ I \subseteq 1 .. Len(rows)
    BY <1>1, FS_Interval
  <2> QED
    BY <2>1, FS_Subset
<1>3. Cardinality(I) \in Nat /\ (Cardinality(I) = 0 <=> I = {})
  BY <1>2, FS_CardinalityType, FS_EmptySet
<1> QED
  BY <1>1, <1>2, <1>3

LEMMA FiniteImage ==
  ASSUME NEW S, IsFiniteSet(S), NEW f, DOMAIN f = S, f = [x \in S |-> f[x]]
  PROVE  IsFiniteSet({f[x] : x \in S})
<1> DEFINE T == {f[x] : x \in S}
<1>1. f \in Surjection(S, T)
  BY DEF Surjection
<1> QED
  BY <1>1, FS_Surjection

LEMMA RowsFinite ==
  ASSUME NEW S, NEW rows \in Seq(S) PROVE IsFiniteSet(ToSet(rows))
<1>1. DOMAIN rows = 1 .. Len(rows) /\ Len(rows) \in Nat /\ rows = [n \in 1 .. Len(rows) |-> rows[n]]
  OBVIOUS
<1>2. IsFiniteSet(1 .. Len(rows))
  <2>1. Len(rows) \in Int
    OBVIOUS
  <2> QED
    BY <2>1, FS_Interval
<1>3. IsFiniteSet({rows[n] : n \in 1 .. Len(rows)})
  BY <1>1, <1>2, FiniteImage
<1> QED
  BY <1>1, <1>3 DEF ToSet

\* A paper's counts are those of the claims its page lists.
LEMMA CountsAgree ==
  ASSUME NEW s, Sound(s), NEW owner
  PROVE  LET page == ClaimsOf(owner, s)
             stats == Stats(owner, s)
         IN /\ stats.counts = Tally([n \in page |-> Shown(s.claims[n], s)])
            /\ stats.claims \in Nat
            /\ \A st \in ClaimStatuses : stats.counts[st] > 0 <=> \E n \in page : Shown(s.claims[n], s) = st
            /\ stats.status = "contested" => stats.counts["contradicted"] > 0
<1> DEFINE page == ClaimsOf(owner, s)
           shown == [n \in page |-> Shown(s.claims[n], s)]
           N == Tally(shown)
<1>1. page \in SUBSET DOMAIN s.claims /\ \A n \in DOMAIN s.claims : s.claims[n] \in ClaimRows
  BY SeqPlaces DEF ClaimsOf, Sound
<1>2. [n \in page |-> Counted(s.claims[n], s)] = shown
  BY <1>1, CountedAsShown
<1>3. Stats(owner, s).counts = N /\ Stats(owner, s).claims = Cardinality(page)
  BY <1>2 DEF Stats
<1>4. \A st \in ClaimStatuses : N[st] \in Nat /\ (N[st] > 0 <=> \E n \in page : shown[n] = st)
  <2> SUFFICES ASSUME NEW st \in ClaimStatuses
               PROVE  N[st] \in Nat /\ (N[st] > 0 <=> \E n \in page : shown[n] = st)
    OBVIOUS
  <2> DEFINE I == {n \in page : shown[n] = st}
  <2>1. N[st] = Cardinality(I)
    BY DEF Tally
  <2>2. I \in SUBSET DOMAIN s.claims
    BY <1>1
  <2> HIDE DEF I
  <2>3. Cardinality(I) \in Nat /\ (Cardinality(I) > 0 <=> I # {})
    BY <2>2, SeqPlaces DEF Sound
  <2> QED
    BY <2>1, <2>3 DEF I
<1>5. Stats(owner, s).status = "contested" => N["contradicted"] > 0
  <2>1. \E all, retracted, discussed : Stats(owner, s).status = RollUp(N, all, retracted, discussed)
    BY <1>2 DEF Stats
  <2> HIDE DEF N
  <2>2. ASSUME NEW all, NEW retracted, NEW discussed, RollUp(N, all, retracted, discussed) = "contested"
        PROVE  N["contradicted"] > 0
    <3>1. CASE retracted \/ (~retracted /\ (all = 0 \/ (~discussed /\ N["replicated"] + N["partial"] + N["contradicted"] = 0)))
      BY <2>2, <3>1 DEF RollUp
    <3>2. CASE ~(retracted \/ (~retracted /\ (all = 0 \/ (~discussed /\ N["replicated"] + N["partial"] + N["contradicted"] = 0))))
      BY <2>2, <3>2 DEF RollUp
    <3> QED
      BY <3>1, <3>2
  <2> QED
    BY <2>1, <2>2
<1>6. Cardinality(page) \in Nat
  BY <1>1, SeqPlaces DEF Sound
<1> QED
  BY <1>3, <1>4, <1>5, <1>6

LEMMA PaperViewsAgree ==
  ASSUME NEW s, Sound(s), NEW p \in ToSet(s.papers)
  PROVE  PaperAgrees(p, s)
<1> DEFINE stats == Stats(OwnerKey(p), s)
           page == ClaimsOf(OwnerKey(p), s)
           Shows(st) == \E n \in page : Shown(s.claims[n], s) = st
<1>1. /\ stats.counts = Tally([n \in page |-> Shown(s.claims[n], s)])
      /\ stats.counts["contradicted"] > 0 <=> Shows("contradicted")
      /\ stats.counts["replicated"] > 0 <=> Shows("replicated")
      /\ stats.status = "contested" => stats.counts["contradicted"] > 0
  BY CountsAgree DEF ClaimStatuses
<1>2. ASSUME NEW key \in AuthorKeys(p)
      PROVE  /\ p.id \in Author(key, s).papers
             /\ \A n \in page : LET c == s.claims[n] IN
                  c.id \in DOMAIN Author(key, s).claims /\ Author(key, s).claims[c.id] = Shown(c, s)
  <2> DEFINE mine == {q \in ToSet(s.papers) : key \in AuthorKeys(q)}
             owners == {OwnerKey(q) : q \in mine}
             ids == {c.id : c \in {d \in ToSet(s.claims) : d.paper_id \in owners}}
  <2>1. Author(key, s).papers = {q.id : q \in mine}
    BY DEF Author
  <2>2. Author(key, s).claims = [id \in ids |-> Shown(CHOOSE c \in ToSet(s.claims) : c.id = id, s)]
    BY DEF Author
  <2>3. p \in mine
    BY <1>2
  <2> HIDE DEF mine
  <2>4. ASSUME NEW n \in page
        PROVE  /\ s.claims[n].id \in ids
               /\ (CHOOSE c \in ToSet(s.claims) : c.id = s.claims[n].id) = s.claims[n]
    <3>1. n \in DOMAIN s.claims /\ s.claims[n].paper_id = OwnerKey(p) /\ s.claims[n] \in ToSet(s.claims)
      BY <2>4 DEF ClaimsOf, ToSet
    <3>2. \A c \in ToSet(s.claims) : c.id = s.claims[n].id => c = s.claims[n]
      BY <3>1 DEF ToSet, Sound
    <3>3. OwnerKey(p) \in owners
      BY <2>3
    <3> HIDE DEF owners
    <3>4. s.claims[n].id \in ids
      BY <3>1, <3>3
    <3> QED
      BY <3>1, <3>2, <3>4
  <2>5. p.id \in Author(key, s).papers
    BY <2>1, <2>3
  <2>6. ASSUME NEW n \in page
        PROVE  /\ s.claims[n].id \in DOMAIN Author(key, s).claims
               /\ Author(key, s).claims[s.claims[n].id] = Shown(s.claims[n], s)
    <3> HIDE DEF ids, page
    <3>1. PICK k : k = s.claims[n].id
      OBVIOUS
    <3>2. k \in ids /\ (CHOOSE c \in ToSet(s.claims) : c.id = k) = s.claims[n]
      BY <2>4, <2>6, <3>1
    <3>3. k \in DOMAIN Author(key, s).claims
          /\ Author(key, s).claims[k] = Shown(CHOOSE c \in ToSet(s.claims) : c.id = k, s)
      BY <2>2, <3>2
    <3> QED
      BY <3>1, <3>2, <3>3
  <2> QED
    BY <2>5, <2>6
<1>3. /\ InScope(p, "contested", day, s) = (stats.status = "contested" \/ stats.counts["contradicted"] > 0)
      /\ InScope(p, "human", day, s) = (stats.counts["replicated"] > 0)
  BY DEF InScope
<1> HIDE DEF stats, Shows
<1>4. /\ InScope(p, "contested", day, s) = Shows("contradicted")
      /\ InScope(p, "human", day, s) = Shows("replicated")
  <2>1. Shows("contradicted") \in BOOLEAN /\ Shows("replicated") \in BOOLEAN
    BY DEF Shows
  <2>2. InScope(p, "contested", day, s) = Shows("contradicted")
    BY <1>1, <1>3, <2>1
  <2>3. InScope(p, "human", day, s) = Shows("replicated")
    BY <1>1, <1>3, <2>1
  <2> QED
    BY <2>2, <2>3
<1> QED
  BY <1>1, <1>2, <1>4 DEF PaperAgrees, stats, Shows

-----------------------------------------------------------------------------
\* max() has something to return.
LEMMA NewestIsThere ==
  ASSUME NEW rows \in Seq(PaperRows), NEW places \in SUBSET DOMAIN rows, places # {}
  PROVE  \E n \in places : NewestOf(rows, places) = rows[n]
<1> DEFINE At(n) == rows[n].submitted_at
           Over(n, m) == At(m) < At(n) \/ (At(m) = At(n) /\ n <= m)
           Some(k) == \E n \in places : n <= k
           Top(n, k) == n \in places /\ n <= k /\ \A m \in places : m <= k => Over(n, m)
           Bad == {k \in Nat : Some(k) /\ \A n : ~Top(n, k)}
<1>1. \A n \in places : n \in 1 .. Len(rows) /\ At(n) \in Nat
  BY RowsAssumption
<1>2. Len(rows) \in Nat
  OBVIOUS
<1> HIDE DEF At
<1>3. Bad = {}
  <2> HIDE DEF Some, Top
  <2> SUFFICES ASSUME Bad # {} PROVE FALSE
    OBVIOUS
  <2>1. PICK k \in Bad : \A j \in Bad : k <= j
    BY LeastOf
  <2>2. k \in Nat /\ Some(k) /\ \A n : ~Top(n, k)
    BY <2>1
  <2>3. k # 0
    BY <1>1, <2>2 DEF Some
  <2>4. k - 1 \in Nat /\ k - 1 \notin Bad
    <3> HIDE DEF Bad
    <3> QED
      BY <2>1, <2>2, <2>3
  <2>5. Some(k - 1) => \E n : Top(n, k - 1)
    BY <2>4
  <2> HIDE DEF Bad
  <2>6. \A m \in places : m <= k => m <= k - 1 \/ m = k
    BY <1>1, <2>2
  <2>7. CASE k \notin places
    <3>1. Some(k - 1)
      BY <2>2, <2>6, <2>7 DEF Some
    <3>2. PICK n : Top(n, k - 1)
      BY <2>5, <3>1
    <3>3. Top(n, k)
      BY <1>1, <2>2, <2>6, <2>7, <3>2 DEF Top
    <3> QED
      BY <2>2, <3>3
  <2>8. CASE k \in places /\ ~Some(k - 1)
    <3>1. Top(k, k)
      BY <1>1, <2>2, <2>6, <2>8 DEF Top, Some
    <3> QED
      BY <2>2, <3>1
  <2>9. CASE k \in places /\ Some(k - 1)
    <3>1. PICK j : Top(j, k - 1)
      BY <2>5, <2>9
    <3>2. j \in places /\ j <= k - 1 /\ j <= k /\ \A m \in places : m <= k - 1 => Over(j, m)
      BY <1>1, <2>2, <3>1 DEF Top
    <3>3. At(j) \in Nat /\ At(k) \in Nat /\ \A m \in places : At(m) \in Nat /\ m \in Nat
      BY <1>1, <2>9, <3>2
    <3>4. CASE At(k) > At(j)
      <4>1. ASSUME NEW m \in places, m <= k PROVE Over(k, m)
        BY <2>2, <2>6, <3>2, <3>3, <3>4, <4>1
      <4> QED
        BY <2>2, <2>9, <4>1 DEF Top
    <3>5. CASE At(k) <= At(j)
      <4>1. ASSUME NEW m \in places, m <= k PROVE Over(j, m)
        BY <2>2, <2>6, <3>2, <3>3, <3>5, <4>1
      <4> QED
        BY <2>2, <3>2, <4>1 DEF Top
    <3> QED
      BY <3>3, <3>4, <3>5
  <2> QED
    BY <2>7, <2>8, <2>9
<1>4. Some(Len(rows)) /\ \A m \in places : m <= Len(rows)
  BY <1>1
<1>5. \E n : Top(n, Len(rows))
  <2> HIDE DEF Some, Top
  <2> QED
    BY <1>2, <1>3, <1>4
<1>6. \E n \in places : \A m \in places : Over(n, m)
  BY <1>4, <1>5
<1> QED
  BY <1>6 DEF NewestOf, At

\* A slug of a stored paper stands for a stored head.
LEMMA SlugListed ==
  ASSUME NEW s, Sound(s), NEW p \in ToSet(s.papers), p.id_slug # None
  PROVE  FindBySlug(p.id_slug, s.papers) \in ListPapers(NoFilter, day, s)
<1> DEFINE papers == s.papers
           candidates == {n \in DOMAIN papers : papers[n].id_slug = p.id_slug}
           heads == {n \in candidates : \A m \in candidates : papers[m].previous_version # papers[n].id}
<1>1. papers \in Seq(PaperRows) /\ \A n \in DOMAIN papers : papers[n] \in PaperRows /\ papers[n] \in ToSet(papers)
  BY SeqPlaces DEF Sound, ToSet
<1>2. candidates # {}
  BY DEF ToSet
<1>3. heads # {}
  <2> DEFINE S == {papers[n] : n \in candidates}
  <2>1. S \in SUBSET PaperRows /\ S # {}
    BY <1>1, <1>2
  <2> HIDE DEF S
  <2>2. PICK q \in S : \A r \in S : r.previous_version # q.id
    BY <2>1, RowsAssumption
  <2> QED
    BY <2>2 DEF S
<1>4. FindBySlug(p.id_slug, papers) = NewestOf(papers, heads)
  BY <1>2, <1>3 DEF FindBySlug
<1>5. PICK n \in heads : NewestOf(papers, heads) = papers[n]
  BY <1>1, <1>3, NewestIsThere
<1>6. IsHead(papers[n], s)
  <2>1. ASSUME NEW q \in ToSet(papers), q.previous_version = papers[n].id PROVE FALSE
    <3>1. PICK m \in DOMAIN papers : q = papers[m]
      BY DEF ToSet
    <3>2. papers[m].id_slug = papers[n].id_slug
      BY <1>1, <1>5, <2>1, <3>1, RowsAssumption
    <3> QED
      BY <1>5, <2>1, <3>1, <3>2
  <2> QED
    BY <2>1 DEF IsHead, SupersededIds
<1>7. ASSUME NEW q PROVE Accepts(NoFilter, q, day, s)
  BY RowsAssumption DEF Accepts, NoFilter, InScope
<1> QED
  BY <1>1, <1>4, <1>5, <1>6, <1>7 DEF ListPapers

\* A search without a claims bound or a status is its filter's.
LEMMA FoundBy ==
  ASSUME NEW s, Sound(s), NEW f, f.scope = None
  PROVE  SearchPapers(f, None, 0, day, s) = {p \in ToSet(s.papers) : 
           /\ f.topic = None \/ f.topic \in p.topics
           /\ f.orcids = {} \/ \E orcid \in f.orcids : HasOrcid(p, orcid)
           /\ f.handles = {} \/ \E handle \in f.handles : HasHandle(p, handle)
           /\ f.families = {} \/ \E family \in f.families : HasFamily(p, family)}
<1>1. ASSUME NEW owner PROVE Stats(owner, s).claims >= 0
  <2>1. Stats(owner, s).claims \in Nat
    BY CountsAgree
  <2> QED
    BY <2>1
<1>2. \A p : InScope(p, f.scope, day, s)
  BY RowsAssumption DEF InScope
<1> QED
  BY <1>1, <1>2 DEF SearchPapers, Accepts

\* Handles, ORCID iDs and names are kept apart.
LEMMA KeysApart ==
  ASSUME NEW a, NEW x
  PROVE  /\ AuthorKey(a) = <<"agent", x>> <=> a.agent_handle \in AgentHandles /\ a.agent_handle = x
         /\ AuthorKey(a) = <<"orcid", x>> <=> a.agent_handle \notin AgentHandles /\ a.orcid \in OrcidIds /\ a.orcid = x
<1>1. \A y : <<"agent", y>> # <<"orcid", x>> /\ <<"name", y>> # <<"orcid", x>>
           /\ <<"orcid", y>> # <<"agent", x>> /\ <<"name", y>> # <<"agent", x>>
  OBVIOUS
<1>2. CASE a.agent_handle \in AgentHandles
  BY <1>1, <1>2 DEF AuthorKey
<1>3. CASE a.agent_handle \notin AgentHandles /\ a.orcid \in OrcidIds
  BY <1>1, <1>3 DEF AuthorKey
<1>4. CASE a.agent_handle \notin AgentHandles /\ a.orcid \notin OrcidIds
  <2>1. AuthorKey(a) = <<"name", Lower(a.name)>>
    BY <1>4 DEF AuthorKey
  <2> QED
    BY <1>1, <1>4, <2>1
<1> QED
  BY <1>2, <1>3, <1>4

\* The registry finds the count of a model that is used.
LEMMA RegistryFinds ==
  ASSUME NEW s, NEW p \in ToSet(s.papers), NEW m \in Models(p), ModelKey(m) # None
  PROVE  RegistryUse(m, s) = ModelUse(ModelKey(m), s)
<1>1. CASE m.release_pin # None
  <2>1. ModelKey(m) = m.release_pin /\ m.release_pin \in ModelKeys(p)
    BY <1>1 DEF ModelKey, ModelKeys
  <2> QED
    BY <2>1 DEF RegistryUse
<1>2. CASE m.release_pin = None
  <2>1. ModelKey(m) = LowerName(m) /\ \A q : m.release_pin \notin ModelKeys(q)
    BY <1>2 DEF ModelKey, ModelKeys
  <2> QED
    BY <2>1 DEF RegistryUse
<1> QED
  BY <1>1, <1>2

LEMMA PaperSearchesAgree ==
  ASSUME NEW s, Sound(s), NEW p \in ToSet(s.papers)
  PROVE  SearchAgrees(p, s)
<1> DEFINE Found(f) == SearchPapers(f, None, 0, day, s)
           His(key) == {r \in ToSet(s.papers) : key \in AuthorKeys(r)}
<1>0. \A key : Author(key, s).papers = {q.id : q \in His(key)}
  BY DEF Author
<1>1. ASSUME NEW n \in DOMAIN p.authors, NEW a, a = p.authors[n], AuthorKey(a) = <<"agent", a.agent_handle>>
      PROVE  Author(AuthorKey(a), s).papers = {q.id : q \in Found([NoFilter EXCEPT !.handles = {a.agent_handle}])}
  <2> DEFINE f == [NoFilter EXCEPT !.handles = {a.agent_handle}]
  <2>1. f.scope = None /\ f.topic = None /\ f.orcids = {} /\ f.handles = {a.agent_handle} /\ f.families = {}
    BY DEF NoFilter
  <2> HIDE DEF f
  <2>2. Found(f) = {q \in ToSet(s.papers) : HasHandle(q, a.agent_handle)}
    BY <2>1, FoundBy
  <2>3. a.agent_handle \in AgentHandles
    BY <1>1, KeysApart
  <2>4. \A q : HasHandle(q, a.agent_handle) <=> AuthorKey(a) \in AuthorKeys(q)
    BY <1>1, <2>3, KeysApart DEF HasHandle, AuthorKeys
  <2>5. Found(f) = His(AuthorKey(a))
    BY <2>2, <2>4
  <2> HIDE DEF Found, His
  <2> QED
    BY <1>0, <2>5 DEF f
<1>2. ASSUME NEW n \in DOMAIN p.authors, NEW a, a = p.authors[n], AuthorKey(a) = <<"orcid", a.orcid>>
      PROVE  LET his == Found([NoFilter EXCEPT !.orcids = {a.orcid}])
             IN /\ p \in his /\ Author(AuthorKey(a), s).papers \subseteq {q.id : q \in his}
                /\ \A q \in his : q.id \notin Author(AuthorKey(a), s).papers =>
                     \E m \in DOMAIN q.authors : q.authors[m].orcid = a.orcid /\ q.authors[m].agent_handle \in AgentHandles
  <2> DEFINE f == [NoFilter EXCEPT !.orcids = {a.orcid}]
  <2>1. f.scope = None /\ f.topic = None /\ f.orcids = {a.orcid} /\ f.handles = {} /\ f.families = {}
    BY DEF NoFilter
  <2> HIDE DEF f
  <2>2. Found(f) = {q \in ToSet(s.papers) : HasOrcid(q, a.orcid)}
    BY <2>1, FoundBy
  <2>3. p \in Found(f)
    BY <1>2, <2>2 DEF HasOrcid
  <2>4. a.orcid \in OrcidIds
    BY <1>2, KeysApart
  <2>5. ASSUME NEW q \in His(AuthorKey(a)) PROVE q \in Found(f)
    <3>1. PICK m \in DOMAIN q.authors : AuthorKey(a) = AuthorKey(q.authors[m])
      BY <2>5 DEF AuthorKeys
    <3>2. q.authors[m].orcid = a.orcid
      BY <1>2, <3>1, KeysApart
    <3> QED
      BY <2>2, <3>2 DEF HasOrcid
  <2>6. ASSUME NEW q \in Found(f), q \notin His(AuthorKey(a))
        PROVE  \E m \in DOMAIN q.authors : q.authors[m].orcid = a.orcid /\ q.authors[m].agent_handle \in AgentHandles
    <3>1. PICK m \in DOMAIN q.authors : q.authors[m].orcid = a.orcid
      BY <2>2 DEF HasOrcid
    <3>2. AuthorKey(q.authors[m]) # <<"orcid", a.orcid>>
      BY <1>2, <2>2, <2>6 DEF AuthorKeys
    <3> QED
      BY <2>4, <3>1, <3>2, KeysApart
  <2> HIDE DEF Found, His
  <2>7. \A q \in His(AuthorKey(a)) : q \in Found(f)
    BY <2>5
  <2>8. Author(AuthorKey(a), s).papers \subseteq {q.id : q \in Found(f)}
    BY <1>0, <2>7
  <2>9. ASSUME NEW q \in Found(f), q.id \notin Author(AuthorKey(a), s).papers
        PROVE  \E m \in DOMAIN q.authors : q.authors[m].orcid = a.orcid /\ q.authors[m].agent_handle \in AgentHandles
    <3>1. q \notin His(AuthorKey(a))
      BY <1>0, <2>9
    <3> QED
      BY <2>6, <3>1
  <2> QED
    BY <2>3, <2>8, <2>9, Zenon DEF f
<1>3. ASSUME NEW m \in Models(p), ModelKey(m) # None
      PROVE  LET use == RegistryUse(m, s).papers_count
                 found == Cardinality(Found([NoFilter EXCEPT !.families = {m.family}]))
                 odd == {o \in UNION {Models(q) : q \in ToSet(s.papers)} :
                           (ModelKey(o) = ModelKey(m)) # (o.family = m.family)}
             IN /\ (\A o \in odd : o.family = m.family) => use <= found
                /\ odd = {} => use = found
  <2> DEFINE f == [NoFilter EXCEPT !.families = {m.family}]
             odd == {o \in UNION {Models(q) : q \in ToSet(s.papers)} :
                       (ModelKey(o) = ModelKey(m)) # (o.family = m.family)}
             using == {q \in ToSet(s.papers) : \E o \in Models(q) : ModelKey(o) = ModelKey(m)}
             kin == {q \in ToSet(s.papers) : \E o \in Models(q) : o.family = m.family}
  <2>1. f.scope = None /\ f.topic = None /\ f.orcids = {} /\ f.handles = {} /\ f.families = {m.family}
    BY DEF NoFilter
  <2> HIDE DEF f
  <2>2. Found(f) = kin
    BY <2>1, FoundBy DEF HasFamily
  <2>3. RegistryUse(m, s).papers_count = Cardinality(using)
    <3>1. {q \in ToSet(s.papers) : ModelKey(m) \in ModelKeys(q)} = using
      BY <1>3 DEF ModelKeys
    <3>2. RegistryUse(m, s) = ModelUse(ModelKey(m), s)
      BY <1>3, RegistryFinds
    <3>3. \A k : ModelUse(k, s).papers_count = Cardinality({q \in ToSet(s.papers) : k \in ModelKeys(q)})
      BY DEF ModelUse
    <3> HIDE DEF using
    <3> QED
      BY <3>1, <3>2, <3>3
  <2>4. IsFiniteSet(kin) /\ IsFiniteSet(using)
    <3>1. IsFiniteSet(1 .. Len(s.papers)) /\ ToSet(s.papers) = {s.papers[n] : n \in 1 .. Len(s.papers)}
      BY FS_Interval DEF ToSet, Sound
    <3>2. IsFiniteSet(ToSet(s.papers))
      BY RowsFinite DEF Sound
    <3> QED
      BY <3>2, FS_Subset
  <2>5. (\A o \in odd : o.family = m.family) => using \subseteq kin
    OBVIOUS
  <2>6. odd = {} => using = kin
    OBVIOUS
  <2> HIDE DEF using, kin, odd, Found
  <2>7. using \subseteq kin => Cardinality(using) <= Cardinality(kin)
    BY <2>4, FS_Subset
  <2> QED
    BY <2>2, <2>3, <2>5, <2>6, <2>7 DEF f, odd
<1> QED
  BY <1>1, <1>2, <1>3, SlugListed DEF SearchAgrees

-----------------------------------------------------------------------------
\* An edge of the graph, seen from either end.
LEMMA BothEnds ==
  ASSUME NEW s, NEW c \in ToSet(s.claims), NEW e \in Neighborhood(c.id, s).edges,
         NEW other, other = IF e.source = c.id THEN e.target ELSE e.source,
         other \in Neighborhood(c.id, s).claims
  PROVE  e \in Neighborhood(other, s).edges
<1>1. other \in {d.id : d \in ToSet(s.claims)} /\ other # c.id
  BY DEF Neighborhood
<1>2. PICK kind \in EdgeKinds : e \in Outgoing(c.id, kind, s) \cup Incoming(c.id, kind, s)
  BY DEF Neighborhood
<1>3. CASE e \in Outgoing(c.id, kind, s)
  <2>1. PICK d \in ToSet(s.claims) : d.id = c.id /\ \E n \in DOMAIN d.edges[kind] : e = [source |-> c.id, target |-> d.edges[kind][n]]
    BY <1>3 DEF Outgoing
  <2>2. e = [source |-> d.id, target |-> other] /\ other \in ToSet(d.edges[kind])
    BY <2>1 DEF ToSet
  <2>3. e \in Incoming(other, kind, s)
    BY <2>1, <2>2 DEF Incoming
  <2> QED
    BY <1>1, <2>3 DEF Neighborhood
<1>4. CASE e \in Incoming(c.id, kind, s)
  <2>1. PICK d \in ToSet(s.claims) : c.id \in ToSet(d.edges[kind]) /\ e = [source |-> d.id, target |-> c.id]
    BY <1>4 DEF Incoming
  <2>2. other = d.id
    BY <1>1, <2>1
  <2>3. PICK n \in DOMAIN d.edges[kind] : d.edges[kind][n] = c.id
    BY <2>1 DEF ToSet
  <2>4. e \in Outgoing(other, kind, s)
    BY <2>1, <2>2, <2>3 DEF Outgoing
  <2> QED
    BY <1>1, <2>4 DEF Neighborhood
<1> QED
  BY <1>2, <1>3, <1>4

\* A claim is depended on at least as often as there are claims that depend on it.
LEMMA DependentsCounted ==
  ASSUME NEW s, Sound(s), NEW id
  PROVE  LET dependents == Cardinality(Incoming(id, "depends_on", s))
         IN /\ DependentsCount(id, s) \in Nat /\ DependentsCount(id, s) >= dependents
            /\ (\A d \in ToSet(s.claims) : IsInjective(d.edges["depends_on"])) =>
                 DependentsCount(id, s) = dependents
<1> DEFINE claims == s.claims
           Deps(n) == claims[n].edges["depends_on"]
           At(n) == {m \in DOMAIN Deps(n) : Deps(n)[m] = id}
           places == [n \in DOMAIN claims |-> {n} \X At(n)]
           pairs == UNION {places[n] : n \in DOMAIN claims}
           incoming == Incoming(id, "depends_on", s)
           f == [x \in pairs |-> [source |-> claims[x[1]].id, target |-> id]]
<1>1. /\ DOMAIN claims = 1 .. Len(claims) /\ Len(claims) \in Nat
      /\ \A n \in DOMAIN claims : claims[n] \in ClaimRows /\ claims[n] \in ToSet(claims)
      /\ \A m, n \in DOMAIN claims : claims[m].id = claims[n].id => m = n
  BY DEF Sound, ToSet
<1>2. \A n \in DOMAIN claims : Deps(n) \in Seq(ToSet(Deps(n)))
  BY <1>1, RowsAssumption DEF EdgeKinds
<1>3. DependentsCount(id, s) = Cardinality(pairs)
  <2>1. pairs = UNION {{n} \X At(n) : n \in DOMAIN claims}
    <3>1. \A n \in DOMAIN claims : places[n] = {n} \X At(n)
      OBVIOUS
    <3> HIDE DEF places, At, claims
    <3>2. {places[n] : n \in DOMAIN claims} = {{n} \X At(n) : n \in DOMAIN claims}
      BY <3>1
    <3> QED
      BY <3>2, Zenon
  <2> QED
    BY <2>1 DEF DependentsCount
<1>4. ASSUME NEW x
      PROVE  x \in pairs <=> \E n \in DOMAIN claims : \E m \in At(n) : x = <<n, m>>
  <2> HIDE DEF claims, At
  <2>1. \A n \in DOMAIN claims : places[n] = {n} \X At(n)
    OBVIOUS
  <2>2. \A n : x \in {n} \X At(n) <=> \E m \in At(n) : x = <<n, m>>
    OBVIOUS
  <2> QED
    BY <2>1, <2>2
<1>5. IsFiniteSet(pairs)
  <2>1. ASSUME NEW n \in DOMAIN claims PROVE IsFiniteSet(places[n])
    <3>1. At(n) \in SUBSET DOMAIN Deps(n)
      OBVIOUS
    <3>2. IsFiniteSet(At(n))
      <4> HIDE DEF At, Deps
      <4> QED
        BY <1>2, <3>1, SeqPlaces
    <3>3. IsFiniteSet({n})
      BY FS_Singleton
    <3> HIDE DEF At
    <3>4. IsFiniteSet({n} \X At(n))
      BY <3>2, <3>3, FS_Product
    <3> QED
      BY <3>4
  <2>2. DOMAIN places = DOMAIN claims /\ places = [n \in DOMAIN claims |-> places[n]]
    OBVIOUS
  <2> HIDE DEF places
  <2>3. IsFiniteSet(DOMAIN claims)
    BY <1>1, FS_Interval
  <2>4. IsFiniteSet({places[n] : n \in DOMAIN claims})
    BY <2>2, <2>3, FiniteImage
  <2> QED
    BY <2>1, <2>4, FS_UNION
<1>6. ASSUME NEW n \in DOMAIN claims, NEW m \in At(n), NEW x \in pairs, x = <<n, m>>
      PROVE  f[x] = [source |-> claims[n].id, target |-> id]
  <2>1. x[1] = n
    BY <1>6
  <2> HIDE DEF pairs, At, claims
  <2> QED
    BY <2>1
<1>7. f \in Surjection(pairs, incoming)
  <2>1. ASSUME NEW x \in pairs PROVE f[x] \in incoming
    <3>1. PICK n \in DOMAIN claims : \E m \in At(n) : x = <<n, m>>
      BY <1>4
    <3>2. f[x] = [source |-> claims[n].id, target |-> id]
      <4> HIDE DEF f, pairs, At, claims
      <4> QED
        BY <1>6, <3>1
    <3>3. id \in ToSet(claims[n].edges["depends_on"])
      BY <3>1 DEF ToSet
    <3> QED
      BY <1>1, <3>2, <3>3 DEF Incoming
  <2>2. ASSUME NEW e \in incoming PROVE \E x \in pairs : f[x] = e
    <3>1. PICK d \in ToSet(claims) : id \in ToSet(d.edges["depends_on"]) /\ e = [source |-> d.id, target |-> id]
      BY DEF Incoming
    <3>2. PICK n \in DOMAIN claims : d = claims[n]
      BY DEF ToSet
    <3>3. PICK m \in DOMAIN Deps(n) : Deps(n)[m] = id
      BY <3>1, <3>2 DEF ToSet
    <3>4. <<n, m>> \in pairs
      BY <1>4, <3>3
    <3>5. f[<<n, m>>] = e
      BY <3>1, <3>2, <3>4
    <3> QED
      BY <3>4, <3>5
  <2>3. DOMAIN f = pairs
    OBVIOUS
  <2>4. f = [x \in pairs |-> f[x]]
    OBVIOUS
  <2> HIDE DEF f, pairs, incoming
  <2> QED
    BY <2>1, <2>2, <2>3, <2>4 DEF Surjection
<1>8. (\A d \in ToSet(claims) : IsInjective(d.edges["depends_on"])) => f \in Injection(pairs, incoming)
  <2> SUFFICES ASSUME \A d \in ToSet(claims) : IsInjective(d.edges["depends_on"])
               PROVE  f \in Injection(pairs, incoming)
    OBVIOUS
  <2>1. ASSUME NEW x \in pairs, NEW y \in pairs, f[x] = f[y] PROVE x = y
    <3>1. PICK n \in DOMAIN claims : \E m \in At(n) : x = <<n, m>>
      BY <1>4
    <3>2. PICK k \in DOMAIN claims : \E j \in At(k) : y = <<k, j>>
      BY <1>4
    <3>3. f[x] = [source |-> claims[n].id, target |-> id] /\ f[y] = [source |-> claims[k].id, target |-> id]
      <4> HIDE DEF f, pairs, At, claims
      <4> QED
        BY <1>6, <3>1, <3>2
    <3>4. claims[n].id = claims[k].id
      BY <2>1, <3>3
    <3>5. n = k
      BY <1>1, <3>4
    <3>6. \A m, j \in At(n) : m = j
      BY <1>1 DEF IsInjective
    <3> QED
      BY <3>1, <3>2, <3>5, <3>6
  <2> HIDE DEF f, pairs, incoming
  <2> QED
    BY <1>7, <2>1 DEF Surjection, Injection, IsInjective
<1> HIDE DEF f, pairs, incoming, claims
<1>9. /\ Cardinality(incoming) <= Cardinality(pairs)
      /\ Cardinality(incoming) = Cardinality(pairs) <=> f \in Injection(pairs, incoming)
      /\ Cardinality(pairs) \in Nat /\ Cardinality(incoming) \in Nat
  BY <1>5, <1>7, FS_Surjection, FS_CardinalityType
<1> QED
  BY <1>3, <1>8, <1>9 DEF incoming, claims

\* No claim is above the first of the ranking.
LEMMA TopIsFirst ==
  ASSUME NEW s, Sound(s), NEW c \in ToSet(s.claims), NEW n \in TopClaims(s, 1)
  PROVE  Influence(c, s) <= Influence(s.claims[n], s)
<1> DEFINE claims == s.claims
           Above(m, k) == Influence(claims[m], s) > Influence(claims[k], s)
           over == {m \in DOMAIN claims : Above(m, n) \/ (m < n /\ ~Above(n, m))}
<1>1. n \in DOMAIN claims /\ Cardinality(over) < 1
  BY DEF TopClaims
<1>2. claims \in Seq(ClaimRows)
  BY DEF Sound
<1>3. over = {}
  <2>1. over \in SUBSET DOMAIN claims
    OBVIOUS
  <2> HIDE DEF over, claims
  <2>2. Cardinality(over) \in Nat /\ (Cardinality(over) > 0 <=> over # {})
    BY <1>2, <2>1, SeqPlaces
  <2> QED
    BY <1>1, <2>2
<1>4. ASSUME NEW d \in ClaimRows PROVE Influence(d, s) \in Nat
  <2>1. DependentsCount(d.id, s) \in Nat
    BY DependentsCounted
  <2>2. d.edges["supports"] \in Seq(ToSet(d.edges["supports"]))
    BY RowsAssumption DEF EdgeKinds
  <2>3. Len(d.edges["supports"]) \in Nat
    BY <2>2
  <2> QED
    BY <2>1, <2>3 DEF Influence
<1>5. PICK m \in DOMAIN claims : c = claims[m]
  BY DEF ToSet
<1>6. claims[m] \in ClaimRows /\ claims[n] \in ClaimRows
  BY <1>1, <1>2
<1>7. ~(Influence(claims[m], s) > Influence(claims[n], s))
  BY <1>3
<1> QED
  BY <1>4, <1>5, <1>6, <1>7

LEMMA ClaimViewsAgree ==
  ASSUME NEW s, Sound(s), NEW c \in ToSet(s.claims)
  PROVE  ClaimAgrees(c, s)
<1>1. \A e \in Neighborhood(c.id, s).edges :
        LET other == IF e.source = c.id THEN e.target ELSE e.source
        IN other \in Neighborhood(c.id, s).claims => e \in Neighborhood(other, s).edges
  BY BothEnds
<1>2. LET dependents == Cardinality(Incoming(c.id, "depends_on", s)) IN
      /\ DependentsCount(c.id, s) >= dependents
      /\ (\A d \in ToSet(s.claims) : IsInjective(d.edges["depends_on"])) => DependentsCount(c.id, s) = dependents
  BY DependentsCounted
<1>3. \A n \in TopClaims(s, 1) : Influence(c, s) <= Influence(s.claims[n], s)
  BY TopIsFirst
<1> QED
  BY <1>1, <1>2, <1>3 DEF ClaimAgrees

\* At every moment, between any two store calls and after any crash, the views of the
\* stored corpus agree: a paper's counts and scopes are those of the claims its page
\* lists (compute_stats reads their owner off their ids, apply_derived_status off
\* their rows), its authors' profiles show them with the same statuses, its slug
\* stands for a listed head, searches find what profiles and the model registry
\* count, an edge is at both its ends, and no claim is above the first of the ranking.
THEOREM CorpusViewsAgree == Spec => []ViewsAgree
<1>1. StoreInv => ViewsAgree
  <2> SUFFICES ASSUME StoreInv PROVE ViewsAgree
    OBVIOUS
  <2>0. PICK s : s = Corpus
    OBVIOUS
  <2>1. Sound(s)
    BY <2>0, CorpusSound
  <2>2. \A p \in ToSet(s.papers) : PaperAgrees(p, s) /\ SearchAgrees(p, s)
    BY <2>1, PaperViewsAgree, PaperSearchesAgree
  <2>3. \A c \in ToSet(s.claims) : ClaimAgrees(c, s)
    BY <2>1, ClaimViewsAgree
  <2> QED
    BY <2>0, <2>2, <2>3 DEF ViewsAgree
<1> QED
  BY <1>1, StoreAlways, PTL

-----------------------------------------------------------------------------
(***************************************************************************)
(* What is counted as viewed is stored.                                    *)
(***************************************************************************)
LEMMA CallKinds ==
  ASSUME NEW r \in Requests, NEW c \in ToSet(CallsOf(r))
  PROVE  /\ c.op = "bump" => r.op = "view" /\ CallsOf(r) = <<c>> /\ c.key = r.claim
         /\ c.op \in {"clear", "replace"} => IsSeeder(r)
<1> DEFINE stored == StoreCalls(r.paper)
<1>1. ASSUME NEW d, CallsOf(r) = <<d>> PROVE c = d
  BY <1>1 DEF ToSet
<1>2. CASE r.op = "submit"
  <2>1. CallsOf(r) = stored
    BY <1>2 DEF CallsOf
  <2>2. c.op = "add"
    BY <1>2, <2>1, StoreCallsFit
  <2> QED
    BY <2>2
<1>3. ASSUME NEW d, CallsOf(r) = <<d>> \o stored, d.op \in {"clear", "replace"}, IsSeeder(r)
      PROVE  c.op # "bump"
  <2>1. stored \in Seq(ToSet(stored)) /\ \A e \in ToSet(stored) : e.op = "add"
    BY <1>3, StoreCallsFit DEF IsSeeder
  <2> DEFINE T == ToSet(stored) \cup {d}
  <2> HIDE DEF stored
  <2>2. <<d>> \in Seq(T) /\ stored \in Seq(T)
    BY <2>1
  <2> HIDE DEF T
  <2>3. <<d>> \o stored \in Seq(T)
    BY <2>2
  <2>4. c \in T
    BY <1>3, <2>3 DEF ToSet
  <2> QED
    BY <1>3, <2>1, <2>4 DEF T
<1>4. CASE r.op = "reset"
  <2> DEFINE d == [op |-> "clear"]
  <2>1. CallsOf(r) = <<d>> \o stored
    BY <1>4 DEF CallsOf
  <2> QED
    BY <1>3, <1>4, <2>1 DEF IsSeeder
<1>5. CASE r.op = "reseed"
  <2> DEFINE d == [op |-> "replace", ids |-> <<r.paper.row.id>>]
  <2>1. CallsOf(r) = <<d>> \o stored
    BY <1>5 DEF CallsOf
  <2> QED
    BY <1>3, <1>5, <2>1 DEF IsSeeder
<1>6. CASE r.op = "annotate"
  BY <1>1, <1>6 DEF CallsOf, AddCall
<1>7. CASE r.op = "view"
  BY <1>1, <1>7 DEF CallsOf
<1>8. CASE r.op = "issue"
  BY <1>1, <1>8 DEF CallsOf, AddCall
<1>9. CASE r.op = "logout"
  BY <1>1, <1>9 DEF CallsOf
<1>10. CASE r.op = "revoke"
  BY <1>1, <1>10 DEF CallsOf
<1>11. CASE r.op = "redeem"
  <2> DEFINE d == [op |-> "consume", table |-> "paste_codes", key |-> r.key]
             e == AddCall("tokens", r.token, [code |-> r.key])
  <2>1. CallsOf(r) = <<d, e>>
    BY <1>11 DEF CallsOf
  <2>2. d.op = "consume" /\ e.op = "add"
    BY DEF AddCall
  <2> HIDE DEF d, e
  <2>3. c = d \/ c = e
    BY <2>1 DEF ToSet
  <2> QED
    BY <2>2, <2>3
<1> QED
  BY <1>2, <1>4, <1>5, <1>6, <1>7, <1>8, <1>9, <1>10, <1>11, RequestsAssumption

\* A claim that was viewed, or is about to be counted as viewed, is stored: only the
\* seeder removes claims, their counters with them, and it works alone.
Seeds(c) == c.op \in {"clear", "replace"}
Viewed == DOMAIN Shelf["claim_views"]
StoredClaims == DOMAIN Shelf["claims"]
ViewedInv ==
  /\ day \in Nat
  /\ \A k \in Viewed : Shelf["claim_views"][k] \in Nat /\ k \in StoredClaims
  /\ \A t \in Threads : \A c \in ToSet(todo[t]) :
       /\ c.op = "bump" => todo[t] = <<c>> /\ c.key \in StoredClaims
       /\ Seeds(c) => seeding /\ \A u \in Threads \ {t} : todo[u] = << >>

\* What the end of a call does to these two tables.
LEMMA ViewedStep ==
  ASSUME StoreInv, ViewedInv, NEW t \in Threads, todo[t] # << >>, NEW c, c = Head(todo[t]), Ends(t, c)
  PROVE  /\ \A k \in Viewed' : (Shelf["claim_views"][k])' \in Nat /\ k \in StoredClaims'
         /\ ~Seeds(c) => StoredClaims \subseteq StoredClaims'
<1> DEFINE views == Shelf["claim_views"]
           claims == Shelf["claims"]
<1>1. /\ c \in Calls /\ c \in ToSet(todo[t]) /\ CallFits(c)
      /\ c.op = "bump" => c.key \in StoredClaims
      /\ \A k \in DOMAIN views : views[k] \in Nat /\ k \in StoredClaims
  BY HeadTail, CallTypes DEF StoreInv, TodoOK, ViewedInv, Viewed
<1>2. "claim_views" \in Names /\ "claims" \in Names /\ Shelf = [n \in Names |-> Shelf[n]]
  BY DEF Names, CorpusNames, Shelf
<1>3. \/ Promised!Add(c) \/ Promised!Remove(c) \/ Promised!BumpClaimView(c) \/ Promised!RevokeOrcidKey(c)
      \/ Promised!Consume(c) \/ Promised!ClearCorpus(c) \/ Promised!ReplaceSeedPapers(c)
  BY EndsEffect
<1> SUFFICES /\ \A k \in DOMAIN Shelf'["claim_views"] :
                  Shelf'["claim_views"][k] \in Nat /\ k \in DOMAIN Shelf'["claims"]
             /\ ~Seeds(c) => DOMAIN claims \subseteq DOMAIN Shelf'["claims"]
  BY DEF Viewed, StoredClaims
<1>4. ASSUME NEW n \in Names, n # "claim_views", n # "claims", NEW dict, Shelf' = [Shelf EXCEPT ![n] = dict]
      PROVE  Shelf'["claim_views"] = views /\ Shelf'["claims"] = claims
  BY <1>2, <1>4
<1>5. CASE Promised!Add(c)
  <2>1. Shelf' = [Shelf EXCEPT ![c.table] = Promised!Put(Shelf[c.table], c.key, c.row)]
    BY <1>5 DEF Promised!Add, Shelf, ShelfOf, Got
  <2>2. c.table \in Names \ {"claim_views"}
    BY <1>1, <1>5 DEF Promised!Add, CallFits
  <2>3. Shelf'["claim_views"] = views /\ (Shelf'["claims"] = claims \/ Shelf'["claims"] = Promised!Put(claims, c.key, c.row))
    BY <1>2, <2>1, <2>2
  <2>4. DOMAIN claims \subseteq DOMAIN Shelf'["claims"]
    BY <2>3 DEF Promised!Put
  <2> QED
    BY <1>1, <2>3, <2>4 DEF StoredClaims
<1>6. CASE Promised!Remove(c)
  <2>1. \E dict : Shelf' = [Shelf EXCEPT !["tokens"] = dict]
    BY <1>1, <1>6 DEF Promised!Remove, Shelf, ShelfOf, Got, CallFits
  <2>2. Shelf'["claim_views"] = views /\ Shelf'["claims"] = claims
    BY <1>2, <2>1
  <2>3. StoredClaims = DOMAIN claims
    BY DEF StoredClaims
  <2> HIDE DEF views, claims
  <2> QED
    BY <1>1, <2>2, <2>3
<1>7. CASE Promised!BumpClaimView(c)
  <2>1. c.op = "bump" /\ Shelf' = [Shelf EXCEPT !["claim_views"] =
          Promised!Put(views, c.key, IF c.key \in DOMAIN views THEN views[c.key] + 1 ELSE 1)]
    BY <1>7 DEF Promised!BumpClaimView, Shelf, ShelfOf, Got
  <2>2. /\ Shelf'["claims"] = claims
        /\ Shelf'["claim_views"] = Promised!Put(views, c.key, IF c.key \in DOMAIN views THEN views[c.key] + 1 ELSE 1)
    BY <1>2, <2>1
  <2> HIDE DEF views, claims
  <2>3. \A k \in DOMAIN Shelf'["claim_views"] :
          (k = c.key /\ Shelf'["claim_views"][k] = IF k \in DOMAIN views THEN views[k] + 1 ELSE 1)
          \/ (k \in DOMAIN views /\ Shelf'["claim_views"][k] = views[k])
    BY <2>2 DEF Promised!Put
  <2>4. c.key \in DOMAIN claims /\ \A k \in DOMAIN views : views[k] \in Nat /\ k \in DOMAIN claims
    BY <1>1, <2>1 DEF StoredClaims, claims
  <2>5. \A k \in DOMAIN Shelf'["claim_views"] : Shelf'["claim_views"][k] \in Nat /\ k \in DOMAIN claims
    <3> SUFFICES ASSUME NEW k \in DOMAIN Shelf'["claim_views"]
                 PROVE  Shelf'["claim_views"][k] \in Nat /\ k \in DOMAIN claims
      OBVIOUS
    <3>1. CASE k = c.key /\ Shelf'["claim_views"][k] = IF k \in DOMAIN views THEN views[k] + 1 ELSE 1
      BY <2>4, <3>1
    <3>2. CASE k \in DOMAIN views /\ Shelf'["claim_views"][k] = views[k]
      BY <2>4, <3>2
    <3> QED
      BY <2>3, <3>1, <3>2
  <2> QED
    BY <2>2, <2>5 DEF claims
<1>8. CASE Promised!RevokeOrcidKey(c)
  <2>1. \E dict : Shelf' = [Shelf EXCEPT !["orcid_keys"] = dict]
    BY <1>8 DEF Promised!RevokeOrcidKey, Shelf, ShelfOf, Got
  <2>2. Shelf'["claim_views"] = views /\ Shelf'["claims"] = claims
    BY <1>2, <2>1
  <2>3. StoredClaims = DOMAIN claims
    BY DEF StoredClaims
  <2> HIDE DEF views, claims
  <2> QED
    BY <1>1, <2>2, <2>3
<1>9. CASE Promised!Consume(c)
  <2>1. \E dict : Shelf' = [Shelf EXCEPT !["paste_codes"] = dict]
    <3>1. c.op = "consume"
      BY <1>9 DEF Promised!Consume
    <3>2. c.table = "paste_codes"
      BY <1>1, <3>1 DEF CallFits
    <3> QED
      BY <1>9, <3>2 DEF Promised!Consume, Shelf, ShelfOf, Got
  <2>2. Shelf'["claim_views"] = views /\ Shelf'["claims"] = claims
    BY <1>2, <2>1
  <2>3. StoredClaims = DOMAIN claims
    BY DEF StoredClaims
  <2> HIDE DEF views, claims
  <2> QED
    BY <1>1, <2>2, <2>3
<1>10. CASE Promised!ClearCorpus(c)
  <2>1. c.op = "clear" /\ Shelf'["claim_views"] = << >>
    BY <1>2, <1>10 DEF Promised!ClearCorpus, Shelf, ShelfOf, Got, Promised!TableNames, Promised!CorpusTables
  <2>2. DOMAIN << >> = {}
    OBVIOUS
  <2> QED
    BY <2>1, <2>2 DEF Seeds
<1>11. CASE Promised!ReplaceSeedPapers(c)
  <2>1. c.op = "replace" /\ \E stale : /\ Shelf'["claim_views"] = Promised!Dropped(views, stale)
                                       /\ Shelf'["claims"] = Promised!Dropped(claims, stale)
    BY <1>11 DEF Promised!ReplaceSeedPapers, Shelf, ShelfOf, Got, Promised!TableNames, Promised!CorpusTables,
                 Promised!PaperTables
  <2>2. PICK stale : /\ Shelf'["claim_views"] = Promised!Dropped(views, stale)
                     /\ Shelf'["claims"] = Promised!Dropped(claims, stale)
    BY <2>1
  <2> HIDE DEF views, claims
  <2>3. /\ DOMAIN Shelf'["claim_views"] = DOMAIN views \ stale
        /\ DOMAIN Shelf'["claims"] = DOMAIN claims \ stale
        /\ \A k \in DOMAIN Shelf'["claim_views"] : Shelf'["claim_views"][k] = views[k]
    BY <2>2 DEF Promised!Dropped, Promised!Restrict
  <2> QED
    BY <1>1, <2>1, <2>3 DEF StoredClaims, claims, Seeds
<1> QED
  BY <1>3, <1>5, <1>6, <1>7, <1>8, <1>9, <1>10, <1>11

LEMMA ViewedInitially == Init => ViewedInv
<1> SUFFICES ASSUME Init PROVE ViewedInv
  OBVIOUS
<1>1. /\ tables = [n \in Names |-> << >>] /\ todo = [t \in Threads |-> << >>] /\ day = 0
  BY DEF Init, StoreInit
<1>2. ToSet(<< >>) = {}
  BY DEF ToSet
<1>3. Shelf["claim_views"] = ShelfOf(<< >>)
  BY <1>1 DEF Shelf, Names, CorpusNames
<1>4. Viewed = {}
  BY <1>2, <1>3 DEF Viewed, ShelfOf
<1> QED
  BY <1>1, <1>2, <1>4 DEF ViewedInv

LEMMA ViewedKept == StoreInv /\ ViewedInv /\ [Next]_vars => ViewedInv'
<1> SUFFICES ASSUME StoreInv, ViewedInv, [Next]_vars PROVE ViewedInv'
  OBVIOUS
<1>1. ASSUME tables' = tables
      PROVE  /\ Viewed' = Viewed /\ StoredClaims' = StoredClaims
             /\ \A k \in Viewed' : (Shelf["claim_views"][k])' \in Nat /\ k \in StoredClaims'
  BY <1>1 DEF Viewed, StoredClaims, Shelf, ViewedInv
<1>2. ASSUME NEW t \in Threads, CallStore(t) PROVE ViewedInv'
  <2>1. /\ todo[t] # << >> /\ day' = day
        /\ seeding' = (seeding /\ \E u \in Threads : todo'[u] # << >>)
    BY <1>2 DEF CallStore, Idle
  <2>2. CASE TakeRow(t, Head(todo[t])) /\ UNCHANGED <<todo, last>>
    <3>1. tables' = tables /\ todo' = todo
      BY <2>2 DEF TakeRow
    <3>2. ASSUME NEW u \in Threads, NEW c \in ToSet(todo[u]), Seeds(c) PROVE seeding'
      <4>1. todo[u] # << >>
        BY <3>2 DEF ToSet
      <4> QED
        BY <2>1, <3>1, <3>2, <4>1 DEF ViewedInv
    <3> QED
      BY <1>1, <2>1, <3>1, <3>2 DEF ViewedInv
  <2>3. CASE Ends(t, Head(todo[t])) /\ todo' = [todo EXCEPT ![t] = Tail(@)]
    <3>0. PICK c : c = Head(todo[t])
      OBVIOUS
    <3>1. /\ \A k \in Viewed' : (Shelf["claim_views"][k])' \in Nat /\ k \in StoredClaims'
          /\ ~Seeds(c) => StoredClaims \subseteq StoredClaims'
      BY <2>1, <2>3, <3>0, ViewedStep
    <3>2. /\ c \in ToSet(todo[t]) /\ ToSet(Tail(todo[t])) \subseteq ToSet(todo[t])
          /\ Len(todo[t]) = 1 => Tail(todo[t]) = << >>
      BY <2>1, <3>0, HeadTail DEF StoreInv, TodoOK
    <3>3. todo' = [u \in Threads |-> IF u = t THEN Tail(todo[t]) ELSE todo[u]]
      BY <2>3 DEF StoreInv, TodoOK
    <3>4. \A u \in Threads : ToSet(todo'[u]) \subseteq ToSet(todo[u])
      BY <3>2, <3>3
    <3>5. ASSUME NEW u \in Threads, NEW d \in ToSet(todo'[u]), d.op = "bump"
          PROVE  todo'[u] = <<d>> /\ d.key \in StoredClaims'
      <4>1. todo[u] = <<d>> /\ d.key \in StoredClaims
        BY <3>4, <3>5 DEF ViewedInv
      <4>2. u # t
        <5> SUFFICES ASSUME u = t PROVE FALSE
          OBVIOUS
        <5>1. Tail(todo[t]) = << >>
          BY <3>2, <4>1
        <5>2. ToSet(<< >>) = {}
          BY DEF ToSet
        <5> QED
          BY <3>3, <3>5, <5>1, <5>2
      <4>3. ~Seeds(c)
        BY <3>2, <4>1, <4>2 DEF ViewedInv
      <4> QED
        BY <3>1, <3>3, <4>1, <4>2, <4>3
    <3>6. ASSUME NEW u \in Threads, NEW d \in ToSet(todo'[u]), Seeds(d)
          PROVE  seeding' /\ \A v \in Threads \ {u} : todo'[v] = << >>
      <4>1. seeding /\ \A v \in Threads \ {u} : todo[v] = << >>
        BY <3>4, <3>6 DEF ViewedInv
      <4>2. u = t
        BY <2>1, <4>1
      <4>3. todo'[u] # << >>
        BY <3>6 DEF ToSet
      <4> QED
        BY <2>1, <3>3, <4>1, <4>2, <4>3
    <3> QED
      BY <2>1, <3>1, <3>5, <3>6 DEF ViewedInv, Seeds
  <2> QED
    BY <1>2, <2>2, <2>3 DEF CallStore
<1>3. ASSUME NEW t \in Threads, NEW r \in Requests, Receive(t, r) PROVE ViewedInv'
  <2>1. /\ tables' = tables /\ day' = day /\ ~seeding /\ seeding' = IsSeeder(r)
        /\ IsSeeder(r) => \A u \in Threads : todo[u] = << >>
        /\ todo' = [u \in Threads |-> IF u = t THEN CallsOf(r) ELSE todo[u]]
        /\ r.op = "view" => Has("claims", r.claim)
    BY <1>3 DEF Receive, Idle, Passes, StoreInv, TodoOK
  <2>2. ASSUME NEW u \in Threads, NEW c \in ToSet(todo'[u])
        PROVE  /\ c.op = "bump" => todo'[u] = <<c>> /\ c.key \in StoredClaims
               /\ Seeds(c) => seeding' /\ \A v \in Threads \ {u} : todo'[v] = << >>
    <3>1. CASE u = t
      <4>1. todo'[u] = CallsOf(r)
        BY <2>1, <3>1
      <4>2. /\ c.op = "bump" => r.op = "view" /\ CallsOf(r) = <<c>> /\ c.key = r.claim
            /\ Seeds(c) => IsSeeder(r)
        BY <2>2, <4>1, CallKinds DEF Seeds
      <4>3. r.op = "view" => r.claim \in StoredClaims
        BY <2>1, HasShelf DEF StoredClaims, Shelf, Names, CorpusNames
      <4> QED
        BY <2>1, <3>1, <4>1, <4>2, <4>3
    <3>2. CASE u # t
      <4>1. c \in ToSet(todo[u]) /\ todo'[u] = todo[u]
        BY <2>1, <2>2, <3>2
      <4> QED
        BY <2>1, <4>1 DEF ViewedInv
    <3> QED
      BY <3>1, <3>2
  <2> QED
    BY <1>1, <2>1, <2>2 DEF ViewedInv, Seeds
<1>4. CASE Crash
  <2>1. tables' = tables /\ day' = day /\ todo' = [t \in Threads |-> << >>]
    BY <1>4 DEF Crash
  <2>2. \A t \in Threads : ToSet(todo'[t]) = {}
    BY <2>1 DEF ToSet
  <2> QED
    BY <1>1, <2>1, <2>2 DEF ViewedInv
<1>5. CASE NextDay
  <2>1. tables' = tables /\ todo' = todo /\ seeding' = seeding /\ day' \in Nat
    BY <1>5, CatalogueAssumption DEF NextDay
  <2> QED
    BY <1>1, <2>1 DEF ViewedInv
<1>6. CASE UNCHANGED vars
  BY <1>1, <1>6 DEF vars, ViewedInv
<1> QED
  BY <1>2, <1>3, <1>4, <1>5, <1>6 DEF Next

LEMMA ViewedAlways == Spec => []ViewedInv
  BY ViewedInitially, ViewedKept, StoreAlways, PTL DEF Spec

-----------------------------------------------------------------------------
(***************************************************************************)
(* The sections of the pulse.                                              *)
(***************************************************************************)
Unique(rows) == \A m, n \in DOMAIN rows : rows[m].id = rows[n].id => m = n
Whole(s) ==
  /\ Sound(s) /\ s.annotations \in Seq(AnnotationRows)
  /\ Unique(s.papers) /\ Unique(s.annotations)

LEMMA CorpusWhole ==
  ASSUME StoreInv PROVE Whole(Corpus)
<1>1. ASSUME NEW name \in {"papers", "annotations"}
      PROVE  /\ DOMAIN Listed(name) = 1 .. Len(tables[name]) /\ Len(tables[name]) \in Nat
             /\ \A n \in 1 .. Len(tables[name]) :
                  Listed(name)[n] = tables[name][n].row /\ tables[name][n] \in ToSet(tables[name])
             /\ Unique(Listed(name))
  <2>1. IsTable(tables[name])
    BY DEF StoreInv, TablesOK, Names, CorpusNames
  <2>2. /\ DOMAIN Listed(name) = 1 .. Len(tables[name]) /\ Len(tables[name]) \in Nat
        /\ \A n \in 1 .. Len(tables[name]) :
             Listed(name)[n] = tables[name][n].row /\ tables[name][n] \in ToSet(tables[name])
        /\ Keyed(tables[name]) /\ DOMAIN tables[name] = 1 .. Len(tables[name])
    BY <2>1, RowsOf DEF IsTable, Listed, ToSet
  <2>3. \A e \in ToSet(tables[name]) : e.key = e.row.id
    BY DEF StoreInv, BroughtInv
  <2> QED
    BY <2>2, <2>3 DEF Keyed, Unique
<1>2. Listed("annotations") \in Seq(AnnotationRows)
  <2>1. \A n \in 1 .. Len(tables["annotations"]) : Listed("annotations")[n] \in AnnotationRows
    BY <1>1 DEF StoreInv, BroughtInv
  <2>2. Listed("annotations") = [n \in 1 .. Len(tables["annotations"]) |-> Listed("annotations")[n]]
    BY <1>1 DEF Listed
  <2> QED
    BY <1>1, <2>1, <2>2
<1> QED
  BY <1>1, <1>2, CorpusSound DEF Whole, Corpus

\* Counting places counts rows.
LEMMA PlacesCounted ==
  ASSUME NEW S, NEW rows \in Seq(S), Unique(rows), NEW P
  PROVE  /\ IsFiniteSet(ToSet(rows) \cap P)
         /\ Cardinality({n \in DOMAIN rows : rows[n] \in P}) = Cardinality(ToSet(rows) \cap P)
<1> DEFINE I == {n \in DOMAIN rows : rows[n] \in P}
           T == ToSet(rows) \cap P
           f == [n \in I |-> rows[n]]
<1>1. IsFiniteSet(I)
  BY SeqPlaces
<1>2. f \in [I -> T]
  BY DEF ToSet
<1>3. \A t \in T : \E n \in I : f[n] = t
  BY DEF ToSet
<1>4. \A m, n \in I : f[m] = f[n] => m = n
  BY DEF Unique
<1> HIDE DEF I, T, f
<1>5. f \in Surjection(I, T) /\ f \in Injection(I, T)
  BY <1>2, <1>3, <1>4 DEF Surjection, Injection, IsInjective
<1> QED
  BY <1>1, <1>5, FS_Surjection DEF I, T

\* What an annotation is about is one paper at most.
LEMMA AboutOne ==
  ASSUME NEW s, Whole(s), NEW t, NEW o \in ResolvePaperId(t, s), NEW q \in ResolvePaperId(t, s)
  PROVE  o = q
<1>1. \A p, r \in ToSet(s.papers) : p.id = r.id => p = r
  BY DEF Whole, Unique, ToSet
<1>2. \A c, d \in ToSet(s.claims) : c.id = d.id => c = d
  BY DEF Whole, Sound, ToSet
<1>3. CASE t.type = "paper"
  <2> DEFINE byMachineId == {OwnerKey(p) : p \in {r \in ToSet(s.papers) : r.id = t.id}}
  <2>1. \A k, l \in byMachineId : k = l
    BY <1>1
  <2>2. ResolvePaperId(t, s) = IF byMachineId = {} THEN {t.id} ELSE byMachineId
    BY <1>3 DEF ResolvePaperId
  <2> HIDE DEF byMachineId
  <2> QED
    BY <2>1, <2>2
<1>4. CASE t.type # "paper"
  <2> DEFINE byClaim == {c.paper_id : c \in {d \in ToSet(s.claims) : d.id = t.id}}
  <2>1. \A k, l \in byClaim : k = l
    BY <1>2
  <2>2. CASE byClaim # {}
    <3>1. ResolvePaperId(t, s) = byClaim
      BY <1>4, <2>2 DEF ResolvePaperId
    <3> QED
      BY <2>1, <3>1
  <2>3. CASE byClaim = {}
    <3> DEFINE before == SubSeq(t.id, 1, SelectInSeq(t.id, LAMBDA w : w = "claim") - 1)
    <3>1. ResolvePaperId(t, s) = IF "claim" \in ToSet(t.id) THEN {before} ELSE {}
      BY <1>4, <2>3 DEF ResolvePaperId
    <3> HIDE DEF before
    <3> QED
      BY <3>1
  <2> QED
    BY <2>2, <2>3
<1> QED
  BY <1>3, <1>4

LEMMA Engaged ==
  ASSUME NEW s, Whole(s),
         \A p, q \in {r \in ToSet(s.papers) : IsHead(r, s)} : OwnerKey(p) = OwnerKey(q) => p = q
  PROVE  Growth(s).engaged <= Health(s).third_party
<1> DEFINE Discusses(a, p) == OwnerKey(p) \in ResolvePaperId(a.target, s) /\ IsThirdParty(a, OwnerKey(p), s)
           S == {p \in ToSet(s.papers) : IsHead(p, s) /\ \E a \in Annotated(s) : Discusses(a, p)}
           T == {a \in Annotated(s) : \E owner \in ResolvePaperId(a.target, s) : IsThirdParty(a, owner, s)}
           f == [p \in S |-> CHOOSE a \in Annotated(s) : Discusses(a, p)]
<1>1. Growth(s).engaged = Cardinality(S) /\ Health(s).third_party = Cardinality(T)
  BY DEF Growth, Health
<1>2. \A p \in S : f[p] \in Annotated(s) /\ Discusses(f[p], p)
  <2> HIDE DEF Discusses
  <2> QED
    OBVIOUS
<1>3. f \in [S -> T]
  <2>1. \A p \in S : f[p] \in T
    BY <1>2
  <2> QED
    BY <2>1
<1>4. \A p, q \in S : f[p] = f[q] => p = q
  <2>1. \A p, q \in S : f[p] = f[q] => OwnerKey(p) = OwnerKey(q)
    <3> HIDE DEF f, S
    <3> QED
      BY <1>2, AboutOne
  <2> QED
    BY <2>1
<1>5. IsFiniteSet(T)
  <2>1. IsFiniteSet(Annotated(s))
    BY RowsFinite DEF Whole, Annotated
  <2> QED
    BY <2>1, FS_Subset
<1>6. f \in Injection(S, T)
  <2> HIDE DEF f, S, T
  <2> QED
    BY <1>3, <1>4 DEF Injection, IsInjective
<1> HIDE DEF f, S, T
<1> QED
  BY <1>1, <1>5, <1>6, FS_Injection

\* Those that are counted and those of excluded identities are all.
LEMMA HiddenApart ==
  ASSUME NEW S, NEW rows \in Seq(S), Unique(rows), NEW P
  PROVE  Cardinality({n \in DOMAIN rows : rows[n] \in P}) =
           Cardinality({a \in ToSet(rows) \cap P : ~IsExcluded(a.by)}) + Cardinality({a \in ToSet(rows) \cap P : IsExcluded(a.by)})
<1> DEFINE T == ToSet(rows) \cap P
           Out == {a \in T : IsExcluded(a.by)}
           In == {a \in T : ~IsExcluded(a.by)}
<1>1. IsFiniteSet(T) /\ Cardinality({n \in DOMAIN rows : rows[n] \in P}) = Cardinality(T)
  BY PlacesCounted
<1>2. T = In \cup Out /\ In \cap Out = {} /\ In \subseteq T /\ Out \subseteq T
  OBVIOUS
<1> HIDE DEF T, In, Out
<1>3. IsFiniteSet(In) /\ IsFiniteSet(Out)
  BY <1>1, <1>2, FS_Subset
<1>4. Cardinality(T) = Cardinality(In) + Cardinality(Out)
  <2>1. Cardinality(In \cup Out) = Cardinality(In) + Cardinality(Out) - Cardinality(In \cap Out)
    BY <1>3, FS_Union
  <2>2. Cardinality(In \cap Out) = 0 /\ Cardinality(In) \in Nat /\ Cardinality(Out) \in Nat
    BY <1>2, <1>3, FS_EmptySet, FS_CardinalityType
  <2> QED
    BY <1>2, <2>1, <2>2
<1> QED
  BY <1>1, <1>4 DEF T, In, Out

LEMMA TotalsHold ==
  ASSUME NEW s, Whole(s) PROVE TotalsAgree(s)
<1>1. CorpusStats(s).head_papers = Health(s).papers
  <2> DEFINE P == {p \in ToSet(s.papers) : IsHead(p, s)}
  <2>1. {n \in DOMAIN s.papers : IsHead(s.papers[n], s)} = {n \in DOMAIN s.papers : s.papers[n] \in P}
    BY DEF ToSet
  <2>2. ToSet(s.papers) \cap P = P
    OBVIOUS
  <2> HIDE DEF P
  <2>3. Cardinality({n \in DOMAIN s.papers : s.papers[n] \in P}) = Cardinality(P)
    BY <2>2, PlacesCounted DEF Whole, Sound
  <2> QED
    BY <2>1, <2>3 DEF CorpusStats, Health, P
<1>2. Health(s).papers = Activity(s, None, day).submissions
  BY DEF Health, Activity, InWindow
<1>3. CorpusStats(s).annotations = Activity(s, None, day).annotations + Cardinality({a \in Annotated(s) : IsExcluded(a.by)})
  <2> DEFINE P == Annotated(s)
  <2>1. Cardinality({n \in DOMAIN s.annotations : s.annotations[n] \in P}) = Len(s.annotations)
    <3>1. DOMAIN s.annotations = 1 .. Len(s.annotations) /\ Len(s.annotations) \in Nat
      BY DEF Whole
    <3>2. {n \in DOMAIN s.annotations : s.annotations[n] \in P} = 1 .. Len(s.annotations)
      BY <3>1 DEF Annotated, ToSet
    <3>3. Cardinality(1 .. Len(s.annotations)) = Len(s.annotations)
      BY <3>1, FS_Interval
    <3> QED
      BY <3>2, <3>3
  <2>2. ToSet(s.annotations) \cap P = Annotated(s)
    BY DEF Annotated
  <2> HIDE DEF P
  <2>3. Len(s.annotations) = Cardinality({a \in Annotated(s) : ~IsExcluded(a.by)}) + Cardinality({a \in Annotated(s) : IsExcluded(a.by)})
    <3>1. Cardinality({n \in DOMAIN s.annotations : s.annotations[n] \in P}) =
            Cardinality({a \in ToSet(s.annotations) \cap P : ~IsExcluded(a.by)})
            + Cardinality({a \in ToSet(s.annotations) \cap P : IsExcluded(a.by)})
      BY HiddenApart DEF Whole
    <3> QED
      BY <2>1, <2>2, <3>1, Zenon
  <2>4. Activity(s, None, day).annotations = Cardinality({a \in Annotated(s) : ~IsExcluded(a.by)})
    BY DEF Activity, InWindow
  <2> QED
    BY <2>3, <2>4 DEF CorpusStats
<1>4. CorpusStats(s).replications = Activity(s, None, day).replications
        + Cardinality({a \in {b \in Annotated(s) : IsExcluded(b.by)} : a.type = "replication"})
  <2> DEFINE P == {a \in Annotated(s) : a.type = "replication"}
  <2>1. {n \in DOMAIN s.annotations : s.annotations[n] \in P} = {n \in DOMAIN s.annotations : s.annotations[n].type = "replication"}
    BY DEF Annotated, ToSet
  <2>2. /\ {a \in ToSet(s.annotations) \cap P : ~IsExcluded(a.by)} = {a \in {b \in Annotated(s) : ~IsExcluded(b.by)} : a.type \in {"replication"}}
        /\ {a \in ToSet(s.annotations) \cap P : IsExcluded(a.by)} = {a \in {b \in Annotated(s) : IsExcluded(b.by)} : a.type = "replication"}
    BY DEF Annotated
  <2> HIDE DEF P
  <2>3. Cardinality({n \in DOMAIN s.annotations : s.annotations[n].type = "replication"}) =
          Cardinality({a \in {b \in Annotated(s) : ~IsExcluded(b.by)} : a.type \in {"replication"}})
          + Cardinality({a \in {b \in Annotated(s) : IsExcluded(b.by)} : a.type = "replication"})
    <3>1. Cardinality({n \in DOMAIN s.annotations : s.annotations[n] \in P}) =
            Cardinality({a \in ToSet(s.annotations) \cap P : ~IsExcluded(a.by)})
            + Cardinality({a \in ToSet(s.annotations) \cap P : IsExcluded(a.by)})
      BY HiddenApart DEF Whole
    <3> QED
      BY <2>1, <2>2, <3>1, Zenon
  <2>4. Activity(s, None, day).replications = Cardinality({a \in {b \in Annotated(s) : ~IsExcluded(b.by)} : a.type \in {"replication"}})
    BY DEF Activity, InWindow
  <2> QED
    BY <2>3, <2>4 DEF CorpusStats
<1> QED
  BY <1>1, <1>2, <1>3, <1>4, Engaged DEF TotalsAgree

\* Each displayed week begins at the cutoff or later.
LEMMA CurvesHold ==
  ASSUME NEW s, Whole(s), day \in Nat PROVE CurvesWhole(s)
<1>1. ASSUME NEW r \in Records(s) PROVE r.at \in Nat
  <2>1. \A p \in ToSet(s.papers) : p \in PaperRows
    BY DEF Whole, Sound, ToSet
  <2>2. \A a \in Annotated(s) : a \in AnnotationRows
    BY DEF Whole, Annotated, ToSet
  <2> QED
    BY <2>1, <2>2, RowsAssumption DEF Records, PaperRecord
<1>2. ASSUME NEW n \in 0 .. Weeks - 1, NEW at \in Nat, Week(at) = Week(day - 7 * n)
      PROVE  at >= Cutoff(day)
  <2>1. Weeks \in Nat /\ n \in Nat /\ n <= Weeks - 1
    BY CatalogueAssumption
  <2>2. \A x \in Int : 7 * (x \div 7) <= x /\ x <= 7 * (x \div 7) + 6
    OBVIOUS
  <2>3. day - 7 * n \in Int /\ 7 * (at \div 7) = 7 * ((day - 7 * n) \div 7)
    BY <1>2, <2>1 DEF Week
  <2>4. at >= day - 7 * n - 6
    BY <2>2, <2>3
  <2> QED
    BY <2>1, <2>4 DEF Cutoff
<1>3. ASSUME NEW type \in {"orcid", "agent"}, NEW w \in WeekOrder(day)
      PROVE  WeeklyActive(type, s, day)[w] =
               Cardinality({by \in Identities(s) : IsOf(by, type) /\ \E r \in Records(s) : r.by = by /\ Week(r.at) = w})
  <2>1. \A r \in Records(s) : Week(r.at) = w => r.at >= Cutoff(day)
    BY <1>1, <1>2 DEF WeekOrder
  <2>2. {r.by : r \in {q \in Records(s) : IsOf(q.by, type) /\ ~IsExcluded(q.by) /\ q.at >= Cutoff(day) /\ Week(q.at) = w}} =
        {by \in Identities(s) : IsOf(by, type) /\ \E r \in Records(s) : r.by = by /\ Week(r.at) = w}
    BY <2>1 DEF Identities
  <2> QED
    BY <2>2 DEF WeeklyActive
<1>4. \A type \in {"orcid", "agent"} : DOMAIN WeeklyActive(type, s, day) = WeekOrder(day)
  BY DEF WeeklyActive
<1> QED
  BY <1>3, <1>4 DEF CurvesWhole

-----------------------------------------------------------------------------
\* Leaders are the TopN best, or all there are.
LEMMA LeadersCounted ==
  ASSUME NEW S, IsFiniteSet(S), NEW score \in [S -> Int], NEW met \in [S -> Int],
         \A j, k \in S : met[j] = met[k] => j = k
  PROVE  Leaders(score, met) \subseteq S /\ Cardinality(Leaders(score, met)) = Min({TopN, Cardinality(S)})
<1> DEFINE Beats(j, k) == score[j] > score[k] \/ (score[j] = score[k] /\ met[j] < met[k])
           Above(k) == {j \in S : Beats(j, k)}
           rank == [k \in S |-> Cardinality(Above(k))]
           N == Cardinality(S)
           Best == {k \in S : rank[k] < TopN}
<1>1. Leaders(score, met) = Best
  BY DEF Leaders
<1>2. N \in Nat /\ TopN \in Nat
  BY FS_CardinalityType, CatalogueAssumption
<1>3. /\ \A k \in S : ~Beats(k, k)
      /\ \A j, k \in S : j # k => Beats(j, k) \/ Beats(k, j)
      /\ \A i, j, k \in S : Beats(i, j) /\ Beats(j, k) => Beats(i, k)
  <2>1. \A j, k \in S : score[j] \in Int /\ met[j] \in Int
    OBVIOUS
  <2> QED
    BY <2>1
<1> HIDE DEF Beats
<1>4. \A k \in S : IsFiniteSet(Above(k)) /\ rank[k] = Cardinality(Above(k)) /\ rank[k] \in Nat /\ rank[k] < N
  <2> SUFFICES ASSUME NEW k \in S
               PROVE  IsFiniteSet(Above(k)) /\ Cardinality(Above(k)) \in Nat /\ Cardinality(Above(k)) < N
    OBVIOUS
  <2>1. Above(k) \subseteq S /\ k \notin Above(k)
    BY <1>3
  <2> HIDE DEF Above
  <2> QED
    BY <1>2, <2>1, FS_Subset, FS_CardinalityType
<1>5. \A j, k \in S : Beats(j, k) => rank[j] < rank[k]
  <2> SUFFICES ASSUME NEW j \in S, NEW k \in S, Beats(j, k) PROVE rank[j] < rank[k]
    OBVIOUS
  <2>1. Above(j) \subseteq Above(k) /\ j \in Above(k) /\ j \notin Above(j)
    BY <1>3
  <2> HIDE DEF Above, rank
  <2>2. Cardinality(Above(j)) <= Cardinality(Above(k)) /\ Cardinality(Above(j)) # Cardinality(Above(k))
    BY <1>4, <2>1, FS_Subset
  <2> QED
    BY <1>4, <2>2
<1>6. \A j, k \in S : rank[j] = rank[k] => j = k
  <2> SUFFICES ASSUME NEW j \in S, NEW k \in S, rank[j] = rank[k], j # k PROVE FALSE
    OBVIOUS
  <2>1. rank[j] \in Nat /\ rank[k] \in Nat
    BY <1>4
  <2>2. Beats(j, k) \/ Beats(k, j)
    BY <1>3
  <2>3. rank[j] < rank[k] \/ rank[k] < rank[j]
    BY <1>5, <2>2
  <2> HIDE DEF rank
  <2> QED
    BY <2>1, <2>3
<1> HIDE DEF Above
<1>7. \A n \in 0 .. N - 1 : \E k \in S : rank[k] = n
  <2>1. rank \in [S -> 0 .. N - 1]
    <3>1. \A k \in S : rank[k] \in 0 .. N - 1
      <4> HIDE DEF rank, N
      <4> QED
        BY <1>2, <1>4
    <3> QED
      BY <3>1
  <2>2. IsFiniteSet(0 .. N - 1) /\ Cardinality(0 .. N - 1) = N
    <3> HIDE DEF N
    <3>1. 0 \in Int /\ N - 1 \in Int
      BY <1>2
    <3>2. Cardinality(0 .. N - 1) = IF 0 > N - 1 THEN 0 ELSE (N - 1) - 0 + 1
      BY <3>1, FS_Interval
    <3> QED
      BY <1>2, <3>1, <3>2, FS_Interval
  <2> HIDE DEF rank
  <2>3. rank \in Injection(S, 0 .. N - 1)
    BY <1>6, <2>1 DEF Injection, IsInjective
  <2>4. rank \in Surjection(S, 0 .. N - 1)
    BY <2>2, <2>3, FS_Injection
  <2> QED
    BY <2>4 DEF Surjection
<1> DEFINE M == IF TopN <= N THEN TopN ELSE N
           first == [k \in Best |-> rank[k]]
<1> HIDE DEF rank, N
<1>8. Best \subseteq S /\ IsFiniteSet(Best)
  <2>1. Best \subseteq S
    OBVIOUS
  <2> HIDE DEF Best
  <2> QED
    BY <2>1, FS_Subset
<1>9. /\ \A k \in Best : first[k] \in 0 .. M - 1
      /\ \A n \in 0 .. M - 1 : \E k \in Best : first[k] = n
      /\ \A j, k \in Best : first[j] = first[k] => j = k
  <2>1. \A k \in Best : k \in S /\ first[k] = rank[k] /\ rank[k] < TopN
    OBVIOUS
  <2>2. \A n \in 0 .. M - 1 : n \in 0 .. N - 1 /\ n < TopN
    BY <1>2
  <2>3. \A k \in S : rank[k] < TopN => k \in Best
    OBVIOUS
  <2>4. M \in Nat
    BY <1>2
  <2>5. \A k \in Best : first[k] \in 0 .. M - 1
    <3>1. \A k \in Best : rank[k] \in Nat /\ rank[k] < M
      BY <1>2, <1>4, <2>1
    <3> HIDE DEF M, Best, first
    <3> QED
      BY <2>1, <2>4, <3>1
  <2> HIDE DEF M, Best, first
  <2> QED
    BY <1>6, <1>7, <2>1, <2>2, <2>3, <2>5
<1>10. M \in Nat /\ Cardinality(0 .. M - 1) = M /\ IsFiniteSet(0 .. M - 1)
  <2>1. M \in Nat
    BY <1>2
  <2> HIDE DEF M
  <2>2. 0 \in Int /\ M - 1 \in Int
    BY <2>1
  <2>3. Cardinality(0 .. M - 1) = IF 0 > M - 1 THEN 0 ELSE (M - 1) - 0 + 1
    BY <2>2, FS_Interval
  <2> QED
    BY <2>1, <2>2, <2>3, FS_Interval
<1>11. Cardinality(Best) = M
  <2>1. first \in [Best -> 0 .. M - 1]
    <3> HIDE DEF Best, M
    <3> QED
      BY <1>9
  <2> HIDE DEF Best, M, first
  <2>2. first \in Injection(Best, 0 .. M - 1) /\ first \in Surjection(Best, 0 .. M - 1)
    BY <1>9, <2>1 DEF Injection, IsInjective, Surjection
  <2> QED
    BY <1>8, <1>10, <2>2, FS_Surjection
<1>12. Min({TopN, N}) = M
  <2>1. M \in {TopN, N} /\ \A y \in {TopN, N} : M =< y
    BY <1>2
  <2>2. \A x \in {TopN, N} : (\A y \in {TopN, N} : x =< y) => x = M
    BY <1>2
  <2> HIDE DEF M
  <2> QED
    BY <2>1, <2>2 DEF Min
<1> QED
  BY <1>1, <1>8, <1>11, <1>12 DEF N

LEMMA TopPapersFit ==
  ASSUME NEW s, Whole(s),
         NEW p \in DOMAIN TopPapers(s), NEW q \in (Owners(s) \cap DOMAIN AboutPaper(s)) \ DOMAIN TopPapers(s)
  PROVE  Cardinality(AboutPaper(s)[q]) <= TopPapers(s)[p]
<1> DEFINE about == AboutPaper(s)
           D == DOMAIN about
           N == [owner \in D |-> Cardinality(about[owner])]
           met == [o \in D |-> Min(about[o])]
           Above(k) == {j \in D : N[j] > N[k] \/ (N[j] = N[k] /\ met[j] < met[k])}
<1>1. IsFiniteSet(D)
  <2> DEFINE f == [a \in Annotated(s) |-> ResolvePaperId(a.target, s)]
             R == {f[a] : a \in Annotated(s)}
  <2>1. IsFiniteSet(Annotated(s))
    BY RowsFinite DEF Whole, Annotated
  <2>2. D = UNION R
    BY DEF AboutPaper
  <2>3. IsFiniteSet(R)
    <3>1. DOMAIN f = Annotated(s) /\ f = [a \in Annotated(s) |-> f[a]]
      OBVIOUS
    <3> HIDE DEF f
    <3> QED
      BY <2>1, <3>1, FiniteImage
  <2>4. \A r \in R : IsFiniteSet(r)
    <3> SUFFICES ASSUME NEW a \in Annotated(s) PROVE IsFiniteSet(ResolvePaperId(a.target, s))
      OBVIOUS
    <3>1. CASE ResolvePaperId(a.target, s) = {}
      BY <3>1, FS_EmptySet
    <3>2. CASE ResolvePaperId(a.target, s) # {}
      <4>1. PICK o : o \in ResolvePaperId(a.target, s)
        BY <3>2
      <4>2. ResolvePaperId(a.target, s) = {o}
        BY <4>1, AboutOne
      <4> QED
        BY <4>2, FS_Singleton
    <3> QED
      BY <3>1, <3>2
  <2> HIDE DEF R, D
  <2> QED
    BY <2>2, <2>3, <2>4, FS_UNION
<1>2. DOMAIN TopPapers(s) = Leaders(N, met) \cap Owners(s) /\ \A o \in DOMAIN TopPapers(s) : TopPapers(s)[o] = N[o]
  BY DEF TopPapers
<1>3. Leaders(N, met) = {k \in D : Cardinality(Above(k)) < TopN}
  BY DEF Leaders
<1>4. p \in D /\ q \in D /\ Cardinality(Above(p)) < TopN /\ ~(Cardinality(Above(q)) < TopN)
  <2> HIDE DEF N, met, Above
  <2> QED
    BY <1>2, <1>3
<1>5. N[p] \in Nat /\ N[q] \in Nat /\ \A o \in D : N[o] \in Nat
  <2>1. \A o \in D : about[o] \in SUBSET DOMAIN s.annotations
    BY DEF AboutPaper
  <2>2. \A o \in D : Cardinality(about[o]) \in Nat
    <3> HIDE DEF D, about
    <3> QED
      BY <2>1, SeqPlaces DEF Whole
  <2>3. \A o \in D : N[o] \in Nat
    BY <2>2
  <2> QED
    BY <1>4, <2>3
<1>6. \A k \in D : IsFiniteSet(Above(k)) /\ Cardinality(Above(k)) \in Nat
  <2>1. \A k \in D : Above(k) \subseteq D
    OBVIOUS
  <2> HIDE DEF Above, D
  <2> QED
    BY <1>1, <2>1, FS_Subset, FS_CardinalityType
<1> SUFFICES ASSUME N[q] > N[p] PROVE FALSE
  <2> HIDE DEF N
  <2>1. TopPapers(s)[p] = N[p]
    BY <1>2
  <2>2. Cardinality(AboutPaper(s)[q]) = N[q]
    BY <1>4 DEF N
  <2> QED
    BY <1>5, <2>1, <2>2
<1>7. Above(q) \subseteq Above(p)
  <2> HIDE DEF N, met
  <2>1. \A j \in D : N[j] > N[q] \/ N[j] = N[q] => N[j] > N[p]
    BY <1>5
  <2> QED
    BY <2>1
<1> HIDE DEF Above
<1>8. Cardinality(Above(q)) <= Cardinality(Above(p))
  BY <1>4, <1>6, <1>7, FS_Subset
<1> QED
  <2>1. TopN \in Nat
    BY CatalogueAssumption
  <2> QED
    BY <1>4, <1>6, <1>8, <2>1

LEMMA TopViewedFit ==
  ASSUME StoreInv, ViewedInv, NEW views, views = tables["claim_views"]
  PROVE  Cardinality(DOMAIN TopViewed(views, Corpus)) = Min({TopN, Len(views)})
<1> DEFINE live == {n \in DOMAIN views : \E c \in ToSet(Corpus.claims) : c.id = views[n].key}
           score == [n \in live |-> views[n].row]
           met == [n \in live |-> n]
           top == Leaders(score, met)
           keys == {views[n].key : n \in top}
           f == [n \in top |-> views[n].key]
<1>1. IsTable(views) /\ IsTable(tables["claims"])
  BY DEF StoreInv, TablesOK, Names, CorpusNames
<1>2. DOMAIN views = 1 .. Len(views) /\ Len(views) \in Nat /\ \A n \in DOMAIN views : views[n] \in ToSet(views)
  BY <1>1, RowsOf DEF IsTable, ToSet
<1>3. \A n \in DOMAIN views : views[n].row \in Nat /\ \E e \in ToSet(tables["claims"]) : e.key = views[n].key
  <2> SUFFICES ASSUME NEW n \in DOMAIN views
               PROVE  views[n].row \in Nat /\ \E e \in ToSet(tables["claims"]) : e.key = views[n].key
    OBVIOUS
  <2>1. Shelf["claim_views"] = ShelfOf(views) /\ Shelf["claims"] = ShelfOf(tables["claims"])
    BY DEF Shelf, Names, CorpusNames
  <2>2. views[n].key \in DOMAIN ShelfOf(views) /\ ShelfOf(views)[views[n].key] = views[n].row
    BY <1>1, <1>2, ShelfRow
  <2>3. views[n].row \in Nat /\ views[n].key \in DOMAIN ShelfOf(tables["claims"])
    BY <2>1, <2>2 DEF ViewedInv, Viewed, StoredClaims
  <2> QED
    BY <2>3 DEF ShelfOf
<1>4. live = DOMAIN views
  <2>1. \A e \in ToSet(tables["claims"]) : e.row \in ToSet(Corpus.claims) /\ e.row.id = e.key
    BY DEF Corpus, Listed, ToSet, StoreInv, BroughtInv
  <2> QED
    BY <1>3, <2>1
<1>5. score \in [live -> Int] /\ met \in [live -> Int] /\ \A j, k \in live : met[j] = met[k] => j = k
  BY <1>2, <1>3, <1>4
<1>6. IsFiniteSet(live) /\ Cardinality(live) = Len(views)
  <2>1. 1 \in Int /\ Len(views) \in Int
    BY <1>2
  <2>2. IsFiniteSet(1 .. Len(views)) /\ Cardinality(1 .. Len(views)) = IF 1 > Len(views) THEN 0 ELSE Len(views) - 1 + 1
    BY <2>1, FS_Interval
  <2> HIDE DEF live
  <2> QED
    BY <1>2, <1>4, <2>2
<1>7. top \subseteq live /\ Cardinality(top) = Min({TopN, Len(views)})
  <2> HIDE DEF live, score, met
  <2> QED
    BY <1>5, <1>6, LeadersCounted
<1>8. Cardinality(keys) = Cardinality(top)
  <2>1. IsFiniteSet(top)
    <3> HIDE DEF top, live
    <3> QED
      BY <1>6, <1>7, FS_Subset
  <2>2. \A m, n \in top : f[m] = f[n] => m = n
    BY <1>1, <1>7, Zenon DEF IsTable, Keyed
  <2> HIDE DEF top
  <2>3. f \in Surjection(top, keys) /\ f \in Injection(top, keys)
    BY <2>2 DEF Surjection, Injection, IsInjective
  <2> HIDE DEF keys, f
  <2> QED
    BY <2>1, <2>3, FS_Surjection
<1>9. DOMAIN TopViewed(views, Corpus) = keys
  BY DEF TopViewed
<1> HIDE DEF keys, top
<1> QED
  BY <1>7, <1>8, <1>9

LEMMA LeadersHold ==
  ASSUME StoreInv, ViewedInv PROVE LeadersFit(Corpus)
<1>1. PICK s : s = Corpus
  OBVIOUS
<1>2. Whole(s)
  BY <1>1, CorpusWhole
<1>3. PICK views : views = tables["claim_views"]
  OBVIOUS
<1>4. Cardinality(DOMAIN TopViewed(views, s)) = Min({TopN, Len(views)})
  BY <1>1, <1>3, TopViewedFit
<1>5. \A p \in DOMAIN TopPapers(s), q \in (Owners(s) \cap DOMAIN AboutPaper(s)) \ DOMAIN TopPapers(s) :
        Cardinality(AboutPaper(s)[q]) <= TopPapers(s)[p]
  BY <1>2, TopPapersFit
<1> QED
  BY <1>1, <1>3, <1>4, <1>5 DEF LeadersFit

-----------------------------------------------------------------------------
\* The sizes of the classes of a partition add up to the whole.
LEMMA ClassesAddUp ==
  ASSUME NEW S, IsFiniteSet(S), NEW f, NEW W, W = {f[x] : x \in S}
  PROVE  SumFunction([w \in W |-> Cardinality({x \in S : f[x] = w})]) = Cardinality(S)
<1> DEFINE One(w) == {x \in S : f[x] = w}
           Of(t) == {x \in S : f[x] \in t}
           size == [w \in W |-> Cardinality(One(w))]
           any(t) == CHOOSE w \in t : TRUE
           Rule(sum) == sum = [t \in SUBSET W |-> IF t = {} THEN 0 ELSE size[any(t)] + sum[t \ {any(t)}]]
           counts == [t \in SUBSET W |-> Cardinality(Of(t))]
<1>1. \A t : IsFiniteSet(Of(t)) /\ Cardinality(Of(t)) \in Nat
  <2>1. \A t : Of(t) \subseteq S
    OBVIOUS
  <2> HIDE DEF Of
  <2> QED
    BY <2>1, FS_Subset, FS_CardinalityType
<1>2. \A w : IsFiniteSet(One(w)) /\ Cardinality(One(w)) \in Nat
  <2>1. \A w : One(w) \subseteq S
    OBVIOUS
  <2> HIDE DEF One
  <2> QED
    BY <2>1, FS_Subset, FS_CardinalityType
<1>3. \A t \in SUBSET W : t # {} => any(t) \in t
  OBVIOUS
<1>4. \A t \in SUBSET W : counts[t] = IF t = {} THEN 0 ELSE size[any(t)] + counts[t \ {any(t)}]
  <2> SUFFICES ASSUME NEW t \in SUBSET W
               PROVE  counts[t] = IF t = {} THEN 0 ELSE size[any(t)] + counts[t \ {any(t)}]
    OBVIOUS
  <2>1. CASE t = {}
    <3>1. Of(t) = {}
      BY <2>1
    <3> QED
      BY <2>1, <3>1, FS_EmptySet
  <2>2. CASE t # {}
    <3>1. PICK w : w = any(t)
      OBVIOUS
    <3>2. w \in t /\ w \in W
      BY <1>3, <2>2, <3>1
    <3>3. Of(t) = One(w) \cup Of(t \ {w}) /\ One(w) \cap Of(t \ {w}) = {}
      BY <3>2
    <3>4. size[w] = Cardinality(One(w)) /\ counts[t] = Cardinality(Of(t)) /\ counts[t \ {w}] = Cardinality(Of(t \ {w}))
      BY <3>2
    <3> HIDE DEF One, Of, size, counts, any
    <3>5. Cardinality(Of(t)) = Cardinality(One(w)) + Cardinality(Of(t \ {w})) - Cardinality(One(w) \cap Of(t \ {w}))
      BY <1>1, <1>2, <3>3, FS_Union
    <3>6. Cardinality(One(w) \cap Of(t \ {w})) = 0
      BY <3>3, FS_EmptySet
    <3>7. Cardinality(Of(t)) = Cardinality(One(w)) + Cardinality(Of(t \ {w}))
      BY <1>1, <1>2, <3>5, <3>6
    <3> QED
      BY <2>2, <3>1, <3>4, <3>7
  <2> QED
    BY <2>1, <2>2
<1> HIDE DEF size, One
<1>5. Rule(counts)
  <2>1. counts = [t \in SUBSET W |-> counts[t]]
    OBVIOUS
  <2> HIDE DEF counts, any
  <2> QED
    BY <1>4, <2>1
<1>6. IsFiniteSet(W)
  <2> DEFINE g == [x \in S |-> f[x]]
  <2>1. DOMAIN g = S /\ g = [x \in S |-> g[x]] /\ W = {g[x] : x \in S}
    OBVIOUS
  <2> HIDE DEF g
  <2> QED
    BY <2>1, FiniteImage
<1>7. ASSUME NEW sum, Rule(sum) PROVE sum[W] = counts[W]
  <2> DEFINE Fails == {n \in Nat : \E t \in SUBSET W : Cardinality(t) = n /\ sum[t] # counts[t]}
  <2>1. \A t \in SUBSET W : IsFiniteSet(t) /\ Cardinality(t) \in Nat
    BY <1>6, FS_Subset, FS_CardinalityType
  <2>2. Fails = {}
    <3> SUFFICES ASSUME Fails # {} PROVE FALSE
      OBVIOUS
    <3>1. PICK n \in Fails : \A k \in Fails : n <= k
      <4>1. Fails \in SUBSET Nat
        OBVIOUS
      <4> HIDE DEF Fails
      <4> QED
        BY <4>1, LeastOf
    <3>2. PICK t \in SUBSET W : Cardinality(t) = n /\ sum[t] # counts[t]
      BY <3>1
    <3> HIDE DEF counts, any
    <3>3. sum[t] = IF t = {} THEN 0 ELSE size[any(t)] + sum[t \ {any(t)}]
      BY <1>7
    <3>4. t # {} /\ any(t) \in t
      BY <1>3, <1>4, <3>2, <3>3
    <3>5. Cardinality(t \ {any(t)}) = n - 1 /\ n - 1 \in Nat /\ t \ {any(t)} \in SUBSET W
      <4>1. IsFiniteSet(t) /\ Cardinality(t) = n /\ t \ {any(t)} \in SUBSET W
        BY <2>1, <3>2
      <4>2. Cardinality(t \ {any(t)}) = n - 1
        BY <3>4, <4>1, FS_RemoveElement
      <4> QED
        BY <2>1, <4>1, <4>2
    <3>6. sum[t \ {any(t)}] = counts[t \ {any(t)}]
      <4>1. n \in Nat
        BY <3>1
      <4>2. n - 1 \notin Fails
        <5> HIDE DEF Fails
        <5> QED
          BY <3>1, <3>5, <4>1
      <4> QED
        BY <3>5, <4>2
    <3> QED
      BY <1>4, <3>2, <3>3, <3>4, <3>6
  <2> HIDE DEF Fails
  <2>3. Cardinality(W) \notin Fails /\ Cardinality(W) \in Nat
    BY <2>1, <2>2
  <2> QED
    BY <2>3 DEF Fails
<1>8. SumFunction(size) = (CHOOSE sum : Rule(sum))[W]
  <2>1. DOMAIN size = W
    BY DEF size
  <2> QED
    BY <2>1 DEF SumFunction, SumFunctionOnSet, FoldFunctionOnSet, MapThenFoldSet
<1>9. counts[W] = Cardinality(S)
  <2>1. Of(W) = S
    OBVIOUS
  <2> QED
    BY <2>1
<1> HIDE DEF Rule, counts
<1>10. (CHOOSE sum : Rule(sum))[W] = counts[W]
  BY <1>5, <1>7
<1> QED
  BY <1>8, <1>9, <1>10 DEF size, One

\* Who ever wrote, of one type.
Written(type, s) == {a.by : a \in {b \in {c \in Annotated(s) : ~IsExcluded(c.by)} : IsOf(b.by, type)}}

\* Only annotations have writers.
LEMMA RecordsOf ==
  ASSUME NEW s
  PROVE  /\ \A a \in Annotated(s) : \E r \in Records(s) : r.by = a.by
         /\ \A r \in Records(s) : r.by # None => \E a \in Annotated(s) : a.by = r.by
<1>1. ASSUME NEW a \in Annotated(s) PROVE \E r \in Records(s) : r.by = a.by
  <2>1. [by |-> a.by, at |-> a.created_at] \in Records(s)
    BY DEF Records
  <2>2. [by |-> a.by, at |-> a.created_at].by = a.by
    OBVIOUS
  <2> QED
    BY <2>1, <2>2
<1>2. ASSUME NEW r \in Records(s), r.by # None PROVE \E a \in Annotated(s) : a.by = r.by
  BY <1>2 DEF Records, PaperRecord
<1> QED
  BY <1>1, <1>2

LEMMA EverWrote ==
  ASSUME NEW s, Whole(s)
  PROVE  /\ Activity(s, None, day).humans = Cardinality(Written("orcid", s))
         /\ Activity(s, None, day).agents = Cardinality(Written("agent", s))
         /\ \A type : IsFiniteSet(Written(type, s))
         /\ \A type : Written(type, s) = {r.by : r \in {q \in Records(s) : IsOf(q.by, type) /\ ~IsExcluded(q.by)}}
<1>1. {a \in Annotated(s) : InWindow(a.created_at, None, day) /\ ~IsExcluded(a.by)} = {c \in Annotated(s) : ~IsExcluded(c.by)}
  BY DEF InWindow
<1>2. /\ Activity(s, None, day).humans = Cardinality(Written("orcid", s))
      /\ Activity(s, None, day).agents = Cardinality(Written("agent", s))
  BY <1>1 DEF Activity, Written
<1>3. ASSUME NEW type PROVE IsFiniteSet(Written(type, s))
  <2> DEFINE f == [a \in Annotated(s) |-> a.by]
             T == {f[a] : a \in Annotated(s)}
  <2>1. IsFiniteSet(Annotated(s))
    BY RowsFinite DEF Whole, Annotated
  <2>2. DOMAIN f = Annotated(s) /\ f = [a \in Annotated(s) |-> f[a]]
    OBVIOUS
  <2>3. Written(type, s) \subseteq T
    BY DEF Written
  <2> HIDE DEF f
  <2>4. IsFiniteSet(T)
    BY <2>1, <2>2, FiniteImage
  <2> HIDE DEF T
  <2> QED
    BY <2>3, <2>4, FS_Subset
<1>4. ASSUME NEW type
      PROVE  Written(type, s) = {r.by : r \in {q \in Records(s) : IsOf(q.by, type) /\ ~IsExcluded(q.by)}}
  <2> DEFINE T == {r.by : r \in {q \in Records(s) : IsOf(q.by, type) /\ ~IsExcluded(q.by)}}
  <2>1. \A by : by \in Written(type, s) <=> IsOf(by, type) /\ ~IsExcluded(by) /\ \E a \in Annotated(s) : a.by = by
    BY DEF Written
  <2>2. \A by : by \in T <=> IsOf(by, type) /\ ~IsExcluded(by) /\ \E r \in Records(s) : r.by = by
    OBVIOUS
  <2>3. \A by : IsOf(by, type) => by # None
    BY DEF IsOf
  <2> HIDE DEF T
  <2>4. \A by : by \in Written(type, s) <=> by \in T
    BY <2>1, <2>2, <2>3, RecordsOf
  <2> QED
    BY <2>4 DEF T
<1> QED
  BY <1>2, <1>3, <1>4

LEMMA NewcomersAddUp ==
  ASSUME NEW s, Whole(s)
  PROVE  SumFunction(FirstWrites(s)) = Activity(s, None, day).humans + Activity(s, None, day).agents
<1> DEFINE H == Written("orcid", s)
           A == Written("agent", s)
           S == Identities(s)
           f == [by \in S |-> Week(FirstSeen(by, s))]
           W == {f[by] : by \in S}
<1>1. S = H \cup A /\ H \cap A = {}
  <2>1. S = H \cup A
    <3> HIDE DEF H, A
    <3> QED
      BY EverWrote DEF Identities, H, A
  <2>2. H \cap A = {}
    BY DEF Written, IsOf
  <2> QED
    BY <2>1, <2>2
<1>2. IsFiniteSet(H) /\ IsFiniteSet(A)
  BY EverWrote
<1>3. FirstWrites(s) = [w \in W |-> Cardinality({by \in S : f[by] = w})]
  <2>1. W = {Week(FirstSeen(by, s)) : by \in Identities(s)}
    OBVIOUS
  <2>2. \A w : {by \in S : f[by] = w} = {by \in Identities(s) : Week(FirstSeen(by, s)) = w}
    OBVIOUS
  <2> HIDE DEF W, f, S
  <2> QED
    BY <2>1, <2>2 DEF FirstWrites
<1> HIDE DEF H, A, S, f
<1>4. IsFiniteSet(S) /\ Cardinality(S) = Cardinality(H) + Cardinality(A)
  <2>1. IsFiniteSet(H \cup A) /\ Cardinality(H \cup A) = Cardinality(H) + Cardinality(A) - Cardinality(H \cap A)
    BY <1>2, FS_Union
  <2>2. Cardinality(H \cap A) = 0 /\ Cardinality(H) \in Nat /\ Cardinality(A) \in Nat
    BY <1>1, <1>2, FS_EmptySet, FS_CardinalityType
  <2> QED
    BY <1>1, <2>1, <2>2
<1>5. SumFunction(FirstWrites(s)) = Cardinality(S)
  <2>1. SumFunction([w \in W |-> Cardinality({by \in S : f[by] = w})]) = Cardinality(S)
    BY <1>4, ClassesAddUp
  <2> QED
    BY <1>3, <2>1
<1> QED
  BY <1>4, <1>5, EverWrote DEF H, A

\* The names of those who ever wrote are some of those that are known.
LEMMA NamesKnown ==
  ASSUME NEW s, Whole(s), NEW type, NEW known, IsFiniteSet(known),
         {r.by[2] : r \in {q \in Records(s) : IsOf(q.by, type)}} \ Excluded \subseteq known
  PROVE  Cardinality(Written(type, s)) <= Cardinality(known)
<1> DEFINE S == Written(type, s)
           f == [by \in S |-> by[2]]
<1>1. \A by \in S : by # None /\ by = <<type, by[2]>> /\ by[2] \notin Excluded
                    /\ \E r \in Records(s) : r.by = by /\ IsOf(r.by, type)
  <2>1. \A a \in Annotated(s) : a.by # None => a.by = <<a.by[1], a.by[2]>>
    BY RowsAssumption DEF Whole, Annotated, ToSet
  <2>2. \A by \in S : \E a \in Annotated(s) : a.by = by /\ IsOf(by, type) /\ ~IsExcluded(by)
    BY DEF Written
  <2> HIDE DEF S
  <2> SUFFICES ASSUME NEW by \in S
               PROVE  by # None /\ by = <<type, by[2]>> /\ by[2] \notin Excluded
                      /\ \E r \in Records(s) : r.by = by /\ IsOf(r.by, type)
    OBVIOUS
  <2>3. PICK a \in Annotated(s) : a.by = by /\ IsOf(by, type) /\ ~IsExcluded(by)
    BY <2>2
  <2>4. by # None /\ by[1] = type /\ by[2] \notin Excluded
    BY <2>3 DEF IsOf, IsExcluded
  <2>5. by = <<type, by[2]>>
    BY <2>1, <2>3, <2>4
  <2>6. \E r \in Records(s) : r.by = by
    BY <2>3, RecordsOf
  <2> QED
    BY <2>3, <2>4, <2>5, <2>6
<1>2. f \in [S -> known]
  <2>1. \A by \in S : by[2] \in known
    BY <1>1
  <2> QED
    BY <2>1
<1>3. \A b, c \in S : f[b] = f[c] => b = c
  <2>1. \A b \in S : b = <<type, f[b]>>
    BY <1>1
  <2> HIDE DEF f, S
  <2> QED
    BY <2>1
<1> HIDE DEF f, S
<1>4. f \in Injection(S, known)
  BY <1>2, <1>3 DEF Injection, IsInjective
<1> QED
  BY <1>4, FS_Injection DEF S

LEMMA GrowthCounts ==
  ASSUME NEW s, Whole(s)
  PROVE  /\ Growth(s).humans >= Activity(s, None, day).humans
         /\ Growth(s).agents >= Activity(s, None, day).agents
<1> DEFINE entries == UNION {ToSet(p.authors) : p \in ToSet(s.papers)}
           Wrote(type) == {r.by[2] : r \in {q \in Records(s) : IsOf(q.by, type)}} \ Excluded
           humans == Wrote("orcid") \cup ({a.orcid : a \in entries} \ ({None} \cup Excluded))
           named == {a.agent_handle : a \in {e \in entries : NamesAgent(e)}}
           agents == Wrote("agent") \cup (named \ ({None} \cup Excluded))
<1>1. Growth(s).humans = Cardinality(humans) /\ Growth(s).agents = Cardinality(agents)
  BY DEF Growth
<1>2. IsFiniteSet(ToSet(s.papers)) /\ IsFiniteSet(Annotated(s))
  BY RowsFinite DEF Whole, Sound, Annotated
<1>3. IsFiniteSet(entries)
  <2> DEFINE f == [p \in ToSet(s.papers) |-> ToSet(p.authors)]
             R == {f[p] : p \in ToSet(s.papers)}
  <2>1. DOMAIN f = ToSet(s.papers) /\ f = [p \in ToSet(s.papers) |-> f[p]]
    OBVIOUS
  <2>2. entries = UNION R
    OBVIOUS
  <2>3. \A r \in R : IsFiniteSet(r)
    <3> SUFFICES ASSUME NEW p \in ToSet(s.papers) PROVE IsFiniteSet(ToSet(p.authors))
      OBVIOUS
    <3>1. p \in PaperRows
      BY DEF Whole, Sound, ToSet
    <3> QED
      BY <3>1, RowsAssumption, RowsFinite
  <2> HIDE DEF f, entries
  <2>4. IsFiniteSet(R)
    BY <1>2, <2>1, FiniteImage
  <2> HIDE DEF R
  <2> QED
    BY <2>2, <2>3, <2>4, FS_UNION
<1> HIDE DEF entries
<1>4. IsFiniteSet({a.orcid : a \in entries}) /\ IsFiniteSet(named)
  <2> DEFINE f == [a \in entries |-> a.orcid]
             g == [a \in entries |-> a.agent_handle]
  <2>1. DOMAIN f = entries /\ f = [a \in entries |-> f[a]] /\ DOMAIN g = entries /\ g = [a \in entries |-> g[a]]
    OBVIOUS
  <2>2. {a.orcid : a \in entries} = {f[a] : a \in entries} /\ {a.agent_handle : a \in entries} = {g[a] : a \in entries}
    OBVIOUS
  <2> HIDE DEF f, g
  <2>3. IsFiniteSet({f[a] : a \in entries}) /\ IsFiniteSet({g[a] : a \in entries})
    BY <1>3, <2>1, FiniteImage
  <2>4. named \subseteq {a.agent_handle : a \in entries}
    OBVIOUS
  <2> QED
    BY <2>2, <2>3, <2>4, FS_Subset
<1>5. ASSUME NEW type \in {"orcid", "agent"} PROVE IsFiniteSet(Wrote(type))
  <2> DEFINE f == [a \in Annotated(s) |-> a.by[2]]
             T == {f[a] : a \in Annotated(s)}
  <2>1. DOMAIN f = Annotated(s) /\ f = [a \in Annotated(s) |-> f[a]]
    OBVIOUS
  <2>2. Wrote(type) \subseteq T
    BY DEF Records, PaperRecord, IsOf
  <2> HIDE DEF f, Wrote
  <2>3. IsFiniteSet(T)
    BY <1>2, <2>1, FiniteImage
  <2> HIDE DEF T
  <2> QED
    BY <2>2, <2>3, FS_Subset
<1>6. IsFiniteSet(humans) /\ IsFiniteSet(agents) /\ Wrote("orcid") \subseteq humans /\ Wrote("agent") \subseteq agents
  <2>1. IsFiniteSet({a.orcid : a \in entries} \ ({None} \cup Excluded))
        /\ IsFiniteSet(named \ ({None} \cup Excluded))
    BY <1>4, FS_Subset
  <2> HIDE DEF Wrote
  <2> QED
    BY <1>5, <2>1, FS_Union
<1> HIDE DEF humans, agents
<1>7. Cardinality(Written("orcid", s)) <= Cardinality(humans) /\ Cardinality(Written("agent", s)) <= Cardinality(agents)
  BY <1>6, NamesKnown
<1>8. /\ Cardinality(Written("orcid", s)) \in Nat /\ Cardinality(humans) \in Nat
      /\ Cardinality(Written("agent", s)) \in Nat /\ Cardinality(agents) \in Nat
  BY <1>6, EverWrote, FS_CardinalityType
<1> QED
  BY <1>1, <1>7, <1>8, EverWrote

LEMMA LongerCountsMore ==
  ASSUME NEW s, Whole(s), NEW v \in Windows, NEW w \in Windows, v # None, w = None \/ v <= w,
         NEW f \in DOMAIN Activity(s, v, day), day \in Nat
  PROVE  Activity(s, v, day)[f] <= Activity(s, w, day)[f]
<1> DEFINE fresh(u) == {a \in Annotated(s) : InWindow(a.created_at, u, day) /\ ~IsExcluded(a.by)}
           papers(u) == {p \in ToSet(s.papers) : InWindow(p.submitted_at, u, day)}
           Writers(type, u) == {a.by : a \in {b \in fresh(u) : IsOf(b.by, type)}}
           Posted(types, u) == {a \in fresh(u) : a.type \in types}
           Heads(u) == {p \in papers(u) : IsHead(p, s)}
           Newer(u) == {p \in papers(u) : p.previous_version # None}
<1>1. ASSUME NEW u
      PROVE  Activity(s, u, day) =
        [humans |-> Cardinality(Writers("orcid", u)), agents |-> Cardinality(Writers("agent", u)),
         submissions |-> Cardinality(Heads(u)), revisions |-> Cardinality(Newer(u)),
         annotations |-> Cardinality(fresh(u)), replications |-> Cardinality(Posted({"replication"}, u)),
         retractions |-> Cardinality(Posted({"claim_retraction", "paper_retraction"}, u))]
  BY DEF Activity
<1>2. \A at \in Nat : InWindow(at, v, day) => InWindow(at, w, day)
  BY DEF InWindow, Windows
<1>3. (\A a \in Annotated(s) : a.created_at \in Nat) /\ \A p \in ToSet(s.papers) : p.submitted_at \in Nat
  <2>1. \A p \in ToSet(s.papers) : p \in PaperRows
    BY DEF Whole, Sound, ToSet
  <2>2. \A a \in Annotated(s) : a \in AnnotationRows
    BY DEF Whole, Annotated, ToSet
  <2> QED
    BY <2>1, <2>2, RowsAssumption
<1>4. IsFiniteSet(ToSet(s.papers)) /\ IsFiniteSet(Annotated(s))
  BY RowsFinite DEF Whole, Sound, Annotated
<1>5. /\ fresh(v) \subseteq fresh(w) /\ papers(v) \subseteq papers(w)
      /\ fresh(w) \subseteq Annotated(s) /\ papers(w) \subseteq ToSet(s.papers)
  BY <1>2, <1>3
<1> HIDE DEF fresh, papers
<1>6. IsFiniteSet(fresh(w)) /\ IsFiniteSet(papers(w))
  BY <1>4, <1>5, FS_Subset
<1>7. /\ \A type : Writers(type, v) \subseteq Writers(type, w)
      /\ \A types : Posted(types, v) \subseteq Posted(types, w) /\ Posted(types, w) \subseteq fresh(w)
      /\ Heads(v) \subseteq Heads(w) /\ Heads(w) \subseteq papers(w)
      /\ Newer(v) \subseteq Newer(w) /\ Newer(w) \subseteq papers(w)
  BY <1>5
<1>8. \A type : IsFiniteSet(Writers(type, w))
  <2> SUFFICES ASSUME NEW type PROVE IsFiniteSet(Writers(type, w))
    OBVIOUS
  <2> DEFINE g == [a \in fresh(w) |-> a.by]
             T == {g[a] : a \in fresh(w)}
  <2>1. DOMAIN g = fresh(w) /\ g = [a \in fresh(w) |-> g[a]]
    OBVIOUS
  <2>2. Writers(type, w) \subseteq T
    OBVIOUS
  <2> HIDE DEF g, Writers
  <2>3. IsFiniteSet(T)
    BY <1>6, <2>1, FiniteImage
  <2> HIDE DEF T
  <2> QED
    BY <2>2, <2>3, FS_Subset
<1> HIDE DEF Writers, Posted, Heads, Newer
<1>9. /\ Cardinality(fresh(v)) <= Cardinality(fresh(w))
      /\ \A type : Cardinality(Writers(type, v)) <= Cardinality(Writers(type, w))
      /\ \A types : Cardinality(Posted(types, v)) <= Cardinality(Posted(types, w))
      /\ Cardinality(Heads(v)) <= Cardinality(Heads(w)) /\ Cardinality(Newer(v)) <= Cardinality(Newer(w))
  <2>1. /\ \A types : IsFiniteSet(Posted(types, w))
        /\ IsFiniteSet(Heads(w)) /\ IsFiniteSet(Newer(w))
    BY <1>6, <1>7, FS_Subset
  <2> QED
    BY <1>5, <1>6, <1>7, <1>8, <2>1, FS_Subset
<1> QED
  BY <1>1, <1>9

LEMMA WritersHold ==
  ASSUME NEW s, Whole(s), day \in Nat PROVE WritersAgree(s)
  BY NewcomersAddUp, GrowthCounts, LongerCountsMore DEF WritersAgree

\* The sections of /stats/pulse add up, with each other and with /stats, at every
\* moment between the store calls of any requests: the weeks of the activity curves are
\* whole, a newcomer is counted in one week, a longer window never counts less, the
\* totals of the two endpoints are of the same papers and annotations, and no place on
\* a leaderboard goes to what is gone while something stored would fill it.
THEOREM PulseAlwaysAddsUp == Spec => []PulseAddsUp
<1>1. StoreInv /\ ViewedInv => PulseAddsUp
  <2> SUFFICES ASSUME StoreInv, ViewedInv PROVE PulseAddsUp
    OBVIOUS
  <2>1. PICK s : s = Corpus
    OBVIOUS
  <2>2. Whole(s) /\ day \in Nat
    BY <2>1, CorpusWhole DEF ViewedInv
  <2>3. CurvesWhole(s) /\ WritersAgree(s) /\ TotalsAgree(s)
    BY <2>2, CurvesHold, WritersHold, TotalsHold
  <2>4. LeadersFit(s)
    BY <2>1, LeadersHold
  <2> QED
    BY <2>1, <2>3, <2>4 DEF PulseAddsUp
<1> QED
  BY <1>1, StoreAlways, ViewedAlways, PTL
=============================================================================
