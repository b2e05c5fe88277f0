------------------------------ MODULE MCRegistry ------------------------------
(* Instances of Rest, and with it Registry, for TLC: the loads, references *)
(* and descriptor sets that the configurations choose from.                *)
EXTENDS Rest, TLC

CONSTANTS a, b, c,              \* subjects and file names
          base, dep, dep2, top, other  \* schemas

\* dep refers to version 1 of subject a, dep2 to version 2.
DepRefs == [s \in Schemas |->
    CASE s = dep -> {<<a, 1>>} [] s = dep2 -> {<<a, 2>>} [] OTHER -> {}]

\* top refers to dep, dep to base.
ChainRefs == [s \in Schemas |->
    CASE s = dep -> {<<a, 1>>} [] s = top -> {<<b, 1>>} [] OTHER -> {}]

ABC == <<a, b, c>>

\* A file b that imports a is dep or dep2, by the version of a.
Compiled == (<<base, <<>>>> :> base) @@ (<<other, <<>>>> :> other)
         @@ (<<dep, <<1>>>> :> dep) @@ (<<dep, <<2>>>> :> dep2)

FileOf(n, ds, x) == [name |-> n, deps |-> ds, content |-> x]

\* b imports a, uploaded with a, or alone.
Uploads == {<<FileOf(b, <<a>>, dep), FileOf(a, <<>>, base)>>,
            <<FileOf(b, <<a>>, dep), FileOf(a, <<>>, other)>>,
            <<FileOf(b, <<a>>, dep)>>}

\* Every way three files can import each other, a missing name and a
\* repeated one.
Graphs3 ==
    LET DepsOf(S) == SelectSeq(ABC, LAMBDA n : n \in S)
    IN  {<<FileOf(a, DepsOf(A), base), FileOf(b, DepsOf(B), base),
           FileOf(c, DepsOf(C), base)>> : A, B, C \in SUBSET {a, b, c}}
        \cup {<<FileOf(a, <<>>, base), FileOf(x, <<a>>, base)>> : x \in {a, NoName}}

AllRead == Schemas \X Schemas
\* base reads top, top reads other, and no more.
SomeRead == {<<s, s>> : s \in Schemas} \cup {<<base, top>>, <<top, other>>}

Quiet == [menu |-> {}, canRead |-> AllRead, modes |-> {}, levels |-> {},
          ids |-> {}, versions |-> {}, sets |-> {}, uploads |-> 0, maxWrites |-> 0]

\* Deletions and references.
Deleting == [Quiet EXCEPT !.menu = {<<a, base>>, <<a, other>>, <<b, dep>>},
                          !.maxWrites = 5]
\* One version deleted for good with its subject, and registered again.
Purging == [Quiet EXCEPT !.menu = {<<a, base>>}, !.maxWrites = 8]
\* Imports with explicit ids and versions.
Importing == [Quiet EXCEPT !.menu = {<<a, base>>, <<a, other>>, <<b, base>>},
                           !.modes = {<<s, "IMPORT">> : s \in {a, b, NoSubject}},
                           !.ids = {1, 2}, !.versions = {1, 2}, !.maxWrites = 4]
\* Levels and modes.
Configuring == [Quiet EXCEPT !.menu = {<<a, base>>, <<a, other>>},
                             !.canRead = SomeRead,
                             !.modes = {a, NoSubject} \X {"READWRITE", "READONLY"},
                             !.levels = {a, NoSubject} \X {"NONE", "BACKWARD"},
                             !.maxWrites = 4]
\* Three schemas of one subject, not all compatible.
Evolving == [Quiet EXCEPT !.menu = {a} \X {base, top, other},
                          !.canRead = SomeRead, !.maxWrites = 5]
\* Descriptor sets beside other registrations.
Uploading == [Quiet EXCEPT !.menu = {<<a, other>>},
                           !.sets = Uploads, !.uploads = 2, !.maxWrites = 4]
\* The order of a descriptor set.
Ordering == [Quiet EXCEPT !.sets = Graphs3, !.uploads = 1]

AllLoads == {Deleting, Purging, Importing, Configuring, Evolving,
             Uploading, Ordering}

\* For the disagreements with the documentation.
TwoSubjects == {[Quiet EXCEPT !.menu = {<<a, base>>, <<b, dep>>}, !.maxWrites = 6]}
ThreeSubjects == {[Quiet EXCEPT !.menu = {<<a, base>>, <<b, dep>>, <<c, top>>},
                                !.maxWrites = 7]}

===============================================================================
