-------------------------- MODULE MCTaskRepository --------------------------
(***************************************************************************)
(* Small instances of TaskRepository.                                      *)
(***************************************************************************)
EXTENDS TaskRepository, TLC

CONSTANTS p1, p2, p3, i1, i2, t1, t2, d1

ThreeProcs == {p1, p2, p3}

OneInstance == {i1}
TwoInstances == {i1, i2}

AllAtHome == [p \in Procs |-> i1]
\* p3 runs alone in the second instance.
Spread == [p \in Procs |-> IF p = p3 THEN i2 ELSE i1]

\* Processes of one instance are interchangeable; the runs that use these
\* check safety only.
SwapAtHome == Permutations({p1, p2})
Interchange == Permutations(Procs)

MCTitles == {t1, t2}
MCDues == {d1}

Drafts == {[title |-> t1, done |-> FALSE, due |-> d1]}

\* Two PATCHes that send different fields: a lost field shows.
TitlePatch == [title |-> t2, done |-> Keep, due |-> Keep]
DonePatch  == [title |-> Keep, done |-> TRUE, due |-> NoDue]

Posts == {[Plain("create", 0) EXCEPT !.draft = d] : d \in Drafts}
Patch(patches) ==
  {[Plain("update", i) EXCEPT !.patch = q] : i \in Ids, q \in patches}
ById(op) == {Plain(op, i) : i \in Ids}

AllRequests ==
  Posts \cup Patch({TitlePatch, DonePatch}) \cup ById("get") \cup ById("delete")
    \cup {Plain("list", 0)}

\* Two creates may race and one task be changed.  Plain reads are left out: they
\* wait for a connection only, as a create does.
WaitingRequests ==
  Posts \cup {Plain("delete", 1), [Plain("update", 1) EXCEPT !.patch = TitlePatch]}

=============================================================================
