------------------------------- MODULE Lineages -------------------------------
(***************************************************************************)
(* What the corpus promises about papers and their versions, whoever        *)
(* submits and whatever happens in between (RRP-0013, RRP-0017, RRP-0029): *)
(* a version is stored once and never changes, a new paper brings a slug   *)
(* nobody has, and a revision points at a stored version and shares its    *)
(* slug.  Submissions implements this (ImplementsLineages there).          *)
(***************************************************************************)
CONSTANTS Ids, Slugs, None

VARIABLE versions  \* id_slug and previous_version of each stored version

Version == [id_slug : Slugs, previous_version : Ids \cup {None}]
TypeOK == versions \in [Ids -> Version \cup {None}]

Known == {i \in Ids : versions[i] # None}
Taken == {versions[i].id_slug : i \in Known}

Init == versions = [i \in Ids |-> None]

Publish(i, s) ==
  /\ i \notin Known /\ s \notin Taken
  /\ versions' = [versions EXCEPT ![i] = [id_slug |-> s, previous_version |-> None]]

Revise(i, p) ==
  /\ i \notin Known /\ p \in Known
  /\ versions' = [versions EXCEPT ![i] =
       [id_slug |-> versions[p].id_slug, previous_version |-> p]]

Next == \E i \in Ids : (\E s \in Slugs : Publish(i, s)) \/ (\E p \in Ids : Revise(i, p))

Spec == Init /\ [][Next]_versions
=============================================================================
