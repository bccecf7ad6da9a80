-------------------------- MODULE RotationSiblings ---------------------------
(***************************************************************************)
(* The rotated companions of a log: which file a name is a rotation of,    *)
(* how a directory is searched for them, how a selection of files is       *)
(* split into families and what MainWindow finally opens, and in which     *)
(* order.                                                                  *)
(*                                                                         *)
(* A name is a sequence of tokens [k, v]: words "w", numbers "n", dates    *)
(* "d" and codec extensions "z", dot-separated; a date is joined by "-".   *)
(* v is the number, or the day of a date, 0 for a date no calendar has.    *)
(* All files are in one directory, so a name is its own canonical key.     *)
(***************************************************************************)
EXTENDS Naturals, SequencesExt

CONSTANTS
    FileNames,     \* names a directory may hold
    MaxNumber,     \* MAX_ACCEPTED_NUMBERED_SUFFIX
    MaxWalked,     \* MAX_ENUMERATED_DIRECTORY_ENTRIES
    MaxFiles,      \* bound: files in the directory
    MaxSelected    \* bound: files selected

ASSUME RotationAssumption == {MaxNumber, MaxWalked} \subseteq Nat \ {0} /\ {MaxFiles, MaxSelected} \subseteq Nat

VARIABLES
    dir,       \* files on disk
    selected,  \* what the user selected, in order
    loaded,    \* locators of the session
    openedFiles  \* what MainWindow opens; {} before

rotationVars == <<dir, selected, loaded, openedFiles>>

-----------------------------------------------------------------------------
(* (?:\.(?:gz|bz2|xz|zst))? at the end of every pattern. *)
Bare(name) == IF Len(name) > 1 /\ Last(name).k = "z" THEN Front(name) ELSE name

NumberedTail(name) == LET b == Bare(name) IN Len(b) > 1 /\ Last(b).k = "n" /\ Last(b).v \in 1..MaxNumber
DatedTail(name) == LET b == Bare(name) IN Len(b) > 1 /\ Last(b).k = "d"
DatedInfix(name) == LET b == Bare(name) IN Len(b) > 2 /\ b[Len(b) - 1].k = "d" /\ Last(b).k # "d"

DeriveRotationPrimary(name) ==
    LET b == Bare(name)
    IN IF NumberedTail(name) \/ DatedTail(name) THEN {Front(b)}
       ELSE IF DatedInfix(name) THEN {Append(SubSeq(b, 1, Len(b) - 2), Last(b))}
       ELSE {}

(* SplitStemExt cuts at the last dot. *)
LastDot(name) == CHOOSE i \in 1..Len(name) : /\ i = 1 \/ name[i].k # "d"
                                             /\ \A j \in (i + 1)..Len(name) : name[j].k = "d"
Stem(name) == IF LastDot(name) = 1 THEN name ELSE SubSeq(name, 1, LastDot(name) - 1)
Ext(name) == IF LastDot(name) = 1 THEN <<>> ELSE SubSeq(name, LastDot(name), Len(name))

(* NUMBERED_RANK_BASE is beyond every date, so numbered files follow dated ones. *)
NumberedRankBase == 1000
(* ClassifySibling: the rank of a name in the family of primary, if any. *)
ClassifySibling(name, primary) ==
    LET b == Bare(name)
        Between(prefix, suffix, kind) ==
            LET i == Len(prefix) + 1
            IN IF Len(b) = i + Len(suffix) /\ SubSeq(b, 1, i - 1) = prefix /\ SubSeq(b, i + 1, Len(b)) = suffix /\ b[i].k = kind
               THEN {b[i].v} \ {0} ELSE {}
        numbered == {n \in Between(primary, <<>>, "n") : n <= MaxNumber}
        dated    == Between(primary, <<>>, "d")
    IN IF numbered # {} THEN {NumberedRankBase - n : n \in numbered}
       ELSE IF dated # {} THEN dated
       ELSE IF Ext(primary) # <<>> THEN Between(Stem(primary), Ext(primary), "d")
       ELSE {}

(* EnumerateCandidates walks the directory in some order, up to a cap. *)
Walks == IF Cardinality(dir) <= MaxWalked THEN {dir} ELSE {s \in SUBSET dir : Cardinality(s) = MaxWalked}
EnumerateCandidates(primary, walk) ==
    IF Ext(primary) # <<>> /\ Ext(primary)[1].k = "z" THEN {}
    ELSE {name \in walk \ {primary} : ClassifySibling(name, primary) # {}}

Rank(name, primary) == CHOOSE r \in ClassifySibling(name, primary) : TRUE
SiblingsUnsorted(primary, walk) == Append(SetToSeq(EnumerateCandidates(primary, walk)), primary)
(* EnumerateRotatedSiblings: by rank, the order of equal ranks is open; the  *)
(* primary is last.                                                          *)
EnumerateRotatedSiblings(primary, walk) ==
    Append(SortSeq(SetToSeq(EnumerateCandidates(primary, walk)), LAMBDA a, b : Rank(a, primary) < Rank(b, primary)), primary)

-----------------------------------------------------------------------------
(* PartitionAsRotationSeries.  The owner of an input is the file it is a     *)
(* rotation of, if that exists or is selected too, and otherwise itself.     *)
Owner(paths, name) ==
    LET derived == {p \in DeriveRotationPrimary(name) : p \in dir \/ p \in ToSet(paths)}
    IN IF derived = {} THEN name ELSE CHOOSE p \in derived : TRUE

Family(paths, primary, walk) ==
    LET files == EnumerateRotatedSiblings(primary, walk)
        extra == SelectSeq(paths, LAMBDA p : Owner(paths, p) = primary /\ p \notin ToSet(files))
        Once(acc, p) == IF p \in ToSet(acc) THEN acc ELSE Append(acc, p)
    IN Front(files) \o FoldLeft(Once, <<>>, extra) \o <<primary>>

Families(paths, walk) ==
    LET owners == [i \in 1..Len(paths) |-> Owner(paths, paths[i])]
        Once(acc, p) == IF p \in ToSet(acc) THEN acc ELSE Append(acc, p)
        Members(p) == Cardinality({i \in DOMAIN owners : owners[i] = p})
        primaries == SelectSeq(FoldLeft(Once, <<>>, owners),
                               LAMBDA p : Members(p) > 1 \/ Len(EnumerateRotatedSiblings(p, walk)) > 1)
    IN [i \in 1..Len(primaries) |-> Family(paths, primaries[i], walk)]

DropsResidual(paths, walk) == FlattenSeq(Families(paths, walk))
(* The families in the order of their first member, then the inputs that     *)
(* have none.                                                                *)
PartitionAsRotationSeries(paths, walk) ==
    LET series == FlattenSeq(Families(paths, walk))
    IN series \o SelectSeq(paths, LAMBDA p : p \notin ToSet(series))

(* ExpandLogPathsWithRotationSiblings skips what is loaded or was emitted.   *)
ExpandLogPathsWithRotationSiblings(paths, walk, already) ==
    LET Emit(acc, p) == IF p \in ToSet(acc) \cup already THEN acc ELSE Append(acc, p)
    IN FoldLeft(Emit, <<>>, PartitionAsRotationSeries(paths, walk))

-----------------------------------------------------------------------------
RotationInit == dir = {} /\ selected = <<>> /\ loaded = {} /\ openedFiles = {}

Rotate(name) ==
    /\ openedFiles = {} /\ selected = <<>> /\ name \notin dir /\ Cardinality(dir) < MaxFiles /\ dir' = dir \cup {name}
    /\ UNCHANGED <<selected, loaded, openedFiles>>

Select(name) ==
    /\ openedFiles = {} /\ Len(selected) < MaxSelected /\ name \in dir /\ selected' = Append(selected, name)
    /\ UNCHANGED <<dir, loaded, openedFiles>>

OpenSelected ==
    /\ openedFiles = {} /\ selected # <<>>
    /\ \E walk \in Walks, already \in {{}, {selected[1]}} :
         /\ loaded' = already
         /\ openedFiles' = {ExpandLogPathsWithRotationSiblings(selected, walk, already)}
    /\ UNCHANGED <<dir, selected>>

RotationNext == OpenSelected \/ \E name \in FileNames : Rotate(name) \/ Select(name)

RotationSpec == RotationInit /\ [][RotationNext]_rotationVars

-----------------------------------------------------------------------------
(* Every selected file that is not loaded yet is opened once, and so are     *)
(* only files that belong to its family: expanding a selection drops none,   *)
(* doubles none and brings in no stranger.                                   *)
SelectionOpenedOnce ==
    \A files \in openedFiles :
        /\ IsInjective(files)
        /\ ToSet(selected) \ loaded \subseteq ToSet(files)
        /\ \A f \in ToSet(files) \ ToSet(selected) : \E p \in ToSet(selected) :
             LET primary == Owner(selected, p) IN f = primary \/ ClassifySibling(f, primary) # {}

(* Records are appended in the order of the files, so a family opens oldest  *)
(* first: by rank, and the live file after all of its rotations.  Left out   *)
(* are families that overlap: app.log.1, rotated from app.log, has the       *)
(* rotation app.log.1.1 and is opened with the first of its two families;    *)
(* and directories larger than the search, which leaves files unranked.      *)
Overlaps(p) == \E f, g \in dir : ClassifySibling(f, p) # {} /\ ClassifySibling(g, f) # {}
OldestFirst ==
    Cardinality(dir) <= MaxWalked => \A files \in openedFiles : \A p \in {q \in dir : DeriveRotationPrimary(q) \cap dir = {} /\ ~Overlaps(q)} :
        \A i, j \in DOMAIN files :
            i < j /\ ClassifySibling(files[j], p) # {} =>
                /\ files[i] # p
                /\ ClassifySibling(files[i], p) # {} => Rank(files[i], p) <= Rank(files[j], p)

(* A selection expands to its families, each file once and oldest first.   *)
FamiliesOpenInOrder == SelectionOpenedOnce /\ OldestFirst
=============================================================================
