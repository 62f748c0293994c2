--------------------------- MODULE NavigatorProofs ---------------------------
(***************************************************************************)
(* What Navigator.tla says of directories, images and swap lists, proved for  *)
(* every number of partitions, tree of directories, set of images and lists  *)
(* and every path and name the computer gives.                              *)
(*                                                                         *)
(* A walk along a path stays at places that are there (PlacesLegal), by the   *)
(* least component where it would not; so every change of directory, with an *)
(* image mounted or put away on the way, ends at a place that is there        *)
(* (ChdirRight).  RD is the one step that takes a place away, and takes none  *)
(* that anything still points to (RemoveStep).  For the lists, the number of  *)
(* the line and the turn are tied together by the count of the entries before *)
(* the line that is read next (Searching).                                  *)
(***************************************************************************)
EXTENDS Navigator, SequenceTheorems, FiniteSetTheorems, WellFoundedInduction, TLAPS

ImageType == [kind : Images \cup {None}, dir : Seq(Names), name : Names \cup {None}]
PlaceType == [dir : Seq(Names), inner : Seq(Names), image : ImageType]
PathType  == [part : Part, dir : Seq(Names), inner : Seq(Names)]
OpenType  == [part : Part, image : ImageType, broken : BOOLEAN]

Exists(p, dir) == dir \in tree[p] \cup {<<>>}
InImage(inner) == inner \in Inner \cup {<<>>}

TreeRight == tree \in [Part -> SUBSET Seq(Names)] /\ \A p \in Part : IsTree(tree[p])

(* The places of a partition exist.                                         *)
Legal(p, place) ==
  /\ Exists(p, place.dir) /\ Exists(p, place.image.dir)
  /\ place.image.kind = "dnp" => InImage(place.inner)
  /\ place.image.kind = None => place.image = NoImage

(* What a change of directory keeps.                                        *)
Sound(s) ==
  /\ s \in [partition : [Part -> PlaceType], open : SUBSET OpenType, error : {"ok", "bad"}]
  /\ \A p \in Part : Legal(p, s.partition[p])
  /\ \A f \in s.open : f.broken \/ f.image = s.partition[f.part].image

OnPath(s, path) ==
  /\ path \in PathType
  /\ Exists(path.part, path.dir)
  /\ fop(s, path.part) = "dnp" => InImage(path.inner)

(***************************************************************************)
(* Paths.                                                                  *)
(***************************************************************************)
LEMMA RootIsPath ==
  ASSUME NEW s, NEW path, OnPath(s, path)
  PROVE  OnPath(s, ToRoot(s, path)) /\ ToRoot(s, path).part = path.part
<1>1. <<>> \in Seq(Names)
  OBVIOUS
<1>2. path \in PathType
  BY DEF OnPath
<1>3. ToRoot(s, path) \in PathType /\ ToRoot(s, path).part = path.part
      /\ ToRoot(s, path).dir \in {path.dir, <<>>} /\ ToRoot(s, path).inner \in {path.inner, <<>>}
  BY <1>1, <1>2 DEF ToRoot, PathType, None
<1> HIDE DEF ToRoot
<1>4. QED BY <1>2, <1>3 DEF OnPath, Exists, InImage

LEMMA IntoIsPath ==
  ASSUME NEW s, NEW path, OnPath(s, path), NEW name \in Names, IsDir(s, path, name)
  PROVE  OnPath(s, Into(s, path, name)) /\ Into(s, path, name).part = path.part
<1>1. path \in PathType /\ path.part \in Part
  BY DEF OnPath, PathType
<1>2. Append(path.dir, name) \in Seq(Names) /\ Append(path.inner, name) \in Seq(Names)
  BY <1>1, AppendProperties DEF PathType
<1>3. CASE fop(s, path.part) = None
  <2>1. Into(s, path, name) = [part |-> path.part, dir |-> Append(path.dir, name), inner |-> path.inner]
    BY <1>1, <1>3 DEF Into, PathType
  <2>2. Append(path.dir, name) \in tree[path.part]
    BY <1>3, Zenon DEF IsDir, None
  <2>3. QED BY <1>1, <1>2, <1>3, <2>1, <2>2 DEF OnPath, PathType, Exists, None
<1>4. CASE fop(s, path.part) # None
  <2>1. Into(s, path, name) = [part |-> path.part, dir |-> path.dir, inner |-> Append(path.inner, name)]
    BY <1>1, <1>4 DEF Into, PathType
  <2>2. fop(s, path.part) = "dnp" /\ Append(path.inner, name) \in Inner
    BY <1>4, Zenon DEF IsDir
  <2>3. QED BY <1>1, <1>2, <2>1, <2>2 DEF OnPath, PathType, InImage
<1>5. QED BY <1>3, <1>4

LEMMA UpIsThere ==
  ASSUME NEW dirs, IsTree(dirs), NEW dir, dir \in dirs \cup {<<>>}, dir # <<>>
  PROVE  Front(dir) \in dirs \cup {<<>>} /\ Front(dir) \in Seq(Names)
<1>1. dir \in dirs /\ dirs \subseteq Seq(Names) /\ Front(dir) \in dirs \cup {<<>>}
  BY DEF IsTree
<1>2. <<>> \in Seq(Names)
  OBVIOUS
<1>3. QED BY <1>1, <1>2

(***************************************************************************)
(* The places along a path, as far as its components are directories.      *)
(***************************************************************************)
LEMMA Least ==
  ASSUME NEW T, T \subseteq Nat, T # {}
  PROVE  \E n \in T : \A m \in T : n <= m
<1> DEFINE Less == OpToRel(<, Nat)
<1>1. IsWellFoundedOn(Less, Nat)
  BY NatLessThanWellFounded
<1>2. \A x, y \in Nat : <<y, x>> \in Less <=> y < x
  BY SMT DEF OpToRel
<1> HIDE DEF Less
<1>3. PICK x \in T : \A y \in T : ~ (<<y, x>> \in Less)
  BY <1>1, WFMin
<1>4. \A y \in T : x <= y
  <2> TAKE y \in T
  <2>1. ~ (<<y, x>> \in Less)
    BY <1>3
  <2>2. x \in Nat /\ y \in Nat
    OBVIOUS
  <2>3. ~ (y < x)
    BY <1>2, <2>1, <2>2
  <2>4. QED BY <2>2, <2>3
<1>5. QED BY <1>4

LEMMA NoNameIsString == NoName \in Names
  BY NavigatorAssumption

StepTo(s, comps, i, path) == IF comps[i] = NoName THEN ToRoot(s, path) ELSE Into(s, path, comps[i])

Steps(s, path, comps, at, n) == at = [i \in 0 .. n |-> IF i = 0 THEN path ELSE StepTo(s, comps, i, at[i - 1])]

LEMMA StepsExist ==
  ASSUME NEW s, NEW path, NEW comps, NEW n \in Nat
  PROVE  \E at : Steps(s, path, comps, at, n)
<1> DEFINE Bad == {m \in Nat : ~ \E at : Steps(s, path, comps, at, m)}
<1>1. SUFFICES ASSUME Bad # {} PROVE FALSE
  OBVIOUS
<1>2. PICK m \in Bad : \A l \in Bad : m <= l
  <2>1. Bad \subseteq Nat
    OBVIOUS
  <2> HIDE DEF Bad
  <2>2. QED BY <1>1, <2>1, Least
<1>3. CASE m = 0
  <2> DEFINE at == [i \in 0 .. 0 |-> path]
  <2>1. Steps(s, path, comps, at, 0)
    BY DEF Steps
  <2>2. QED BY <2>1, <1>2, <1>3
<1>4. CASE m # 0
  <2>1. m \in Nat /\ m - 1 \in Nat /\ m - 1 \notin Bad
    BY <1>2, <1>4
  <2>2. PICK before : Steps(s, path, comps, before, m - 1)
    BY <2>1
  <2> DEFINE last == StepTo(s, comps, m, before[m - 1])
             at   == [i \in 0 .. m |-> IF i = m THEN last ELSE before[i]]
  <2>3. \A i \in 0 .. m - 1 : before[i] = IF i = 0 THEN path ELSE StepTo(s, comps, i, before[i - 1])
    BY <2>2, <2>1 DEF Steps
  <2> HIDE DEF last
  <2>4. (\A i \in 0 .. m - 1 : at[i] = before[i]) /\ at[m] = last
    BY <2>1
  <2>5. at = [i \in 0 .. m |-> at[i]]
    OBVIOUS
  <2> HIDE DEF at
  <2>6. \A i \in 0 .. m : at[i] = IF i = 0 THEN path ELSE StepTo(s, comps, i, at[i - 1])
    <3> TAKE i \in 0 .. m
    <3>1. CASE i = m
      <4>1. at[m - 1] = before[m - 1]
        BY <2>1, <2>4
      <4>2. QED BY <2>4, <3>1, <4>1, <1>4 DEF last
    <3>2. CASE i # m
      <4>1. i \in 0 .. m - 1 /\ at[i] = before[i]
        BY <2>1, <2>4, <3>2
      <4>2. i # 0 => at[i - 1] = before[i - 1]
        BY <2>1, <2>4, <3>2
      <4>3. QED BY <2>3, <4>1, <4>2
    <3>3. QED BY <3>1, <3>2
  <2>7. Steps(s, path, comps, at, m)
    BY <2>5, <2>6 DEF Steps
  <2>8. QED BY <2>7, <1>2
<1>5. QED BY <1>3, <1>4

LEMMA PlacesStep ==
  ASSUME NEW s, NEW path, NEW comps, Len(comps) \in Nat
  PROVE  /\ Places(s, path, comps)[0] = path
         /\ \A i \in 1 .. Len(comps) : Places(s, path, comps)[i] = StepTo(s, comps, i, Places(s, path, comps)[i - 1])
<1> DEFINE n == Len(comps)
           Is(at) == at = [i \in 0 .. n |-> IF i = 0 THEN path
                                            ELSE IF comps[i] = NoName THEN ToRoot(s, at[i - 1])
                                            ELSE Into(s, at[i - 1], comps[i])]
<1>1. Places(s, path, comps) = CHOOSE at : Is(at)
  BY DEF Places
<1>2. \E at : Is(at)
  <2>1. PICK at : Steps(s, path, comps, at, n)
    BY StepsExist
  <2>2. Is(at)
    BY <2>1, Zenon DEF Steps, StepTo
  <2>3. QED BY <2>2
<1>3. Is(Places(s, path, comps))
  <2> HIDE DEF Is
  <2>1. QED BY <1>1, <1>2
<1> HIDE DEF n
<1>4. \A i \in 0 .. n : Places(s, path, comps)[i] =
        IF i = 0 THEN path ELSE StepTo(s, comps, i, Places(s, path, comps)[i - 1])
  <2>1. Places(s, path, comps) =
          [i \in 0 .. n |-> IF i = 0 THEN path ELSE StepTo(s, comps, i, Places(s, path, comps)[i - 1])]
    BY <1>3, Zenon DEF StepTo
  <2>2. QED BY <2>1
<1>5. QED BY <1>4 DEF n

(* What is no directory is a file of a kind of its own, or nothing.          *)
LEMMA KindIsDir ==
  ASSUME NEW s, NEW path, NEW name
  PROVE  /\ Kind(s, path, name) = "dir" <=> IsDir(s, path, name)
         /\ Kind(s, path, name) \in {"dir", None, "file"} \cup Images
         /\ Kind(s, path, name) \notin {"dir", None} => fop(s, path.part) = None
<1> DEFINE F == FileAt(path.part, path.dir, name)
           k == (CHOOSE f \in F : TRUE).kind
<1>1. F # {} => k \in Images \cup {"file"}
  <2>1. F \subseteq Files /\ \A f \in Files : f.kind \in Images \cup {"file"}
    BY NavigatorAssumption DEF FileAt, File
  <2> HIDE DEF F
  <2>2. QED BY <2>1
<1>2. None # "dir" /\ "dir" \notin Images \cup {"file"}
  BY DEF None, Images
<1> HIDE DEF k
<1>3. Kind(s, path, name) = IF IsDir(s, path, name) THEN "dir" ELSE IF fop(s, path.part) = None /\ F # {} THEN k ELSE None
  BY Zenon DEF Kind, k
<1> HIDE DEF F
<1>4. QED BY <1>1, <1>2, <1>3

(* All places up to the first that is no directory are legal.                *)
IsStep(s, path, comps, i) == comps[i] = NoName \/ Kind(s, Places(s, path, comps)[i - 1], comps[i]) = "dir"

LEMMA PlacesLegal ==
  ASSUME NEW s, NEW path, OnPath(s, path), NEW comps, comps \in Seq(Names), NEW last \in Nat, last <= Len(comps),
         \A i \in 1 .. last : IsStep(s, path, comps, i)
  PROVE  OnPath(s, Places(s, path, comps)[last]) /\ Places(s, path, comps)[last].part = path.part
<1> DEFINE at == Places(s, path, comps)
           Right(i) == OnPath(s, at[i]) /\ at[i].part = path.part
           Bad == {i \in 0 .. last : ~ Right(i)}
<1>1. Len(comps) \in Nat /\ \A i \in 1 .. Len(comps) : comps[i] \in Names
  OBVIOUS
<1>2. SUFFICES ASSUME Bad # {} PROVE FALSE
  BY <1>1
<1>3. PICK m \in Bad : \A l \in Bad : m <= l
  <2>1. Bad \subseteq Nat
    OBVIOUS
  <2> HIDE DEF Bad
  <2>2. QED BY <1>2, <2>1, Least
<1>4. m \in 0 .. last /\ ~ Right(m)
  BY <1>3
<1>5. m # 0
  <2>1. at[0] = path
    BY <1>1, PlacesStep
  <2>2. QED BY <1>4, <2>1
<1>6. m - 1 \in 0 .. last /\ Right(m - 1) /\ m \in 1 .. last /\ m \in 1 .. Len(comps)
  BY <1>1, <1>3, <1>5
<1>7. at[m] = StepTo(s, comps, m, at[m - 1])
  BY <1>1, <1>6, PlacesStep
<1> HIDE DEF at
<1>8. CASE comps[m] = NoName
  <2>1. OnPath(s, ToRoot(s, at[m - 1])) /\ ToRoot(s, at[m - 1]).part = at[m - 1].part
    BY <1>6, RootIsPath
  <2>2. QED BY <1>4, <1>6, <1>7, <1>8, <2>1 DEF StepTo
<1>9. CASE comps[m] # NoName
  <2>1. Kind(s, at[m - 1], comps[m]) = "dir"
    BY <1>6, <1>9 DEF at, IsStep
  <2>2. IsDir(s, at[m - 1], comps[m])
    BY <2>1, KindIsDir
  <2>3. OnPath(s, Into(s, at[m - 1], comps[m])) /\ Into(s, at[m - 1], comps[m]).part = at[m - 1].part
    BY <1>1, <1>6, <2>2, IntoIsPath
  <2>4. QED BY <1>4, <1>6, <1>7, <1>9, <2>3 DEF StepTo
<1>10. QED BY <1>8, <1>9


LEMMA WalkRight ==
  ASSUME NEW s, NEW path, OnPath(s, path), NEW comps, comps \in Seq(Names), NEW for_cd, NEW colon
  PROVE  /\ OnPath(s, Walk(s, path, comps, for_cd, colon).path)
         /\ Walk(s, path, comps, for_cd, colon).path.part = path.part
         /\ Walk(s, path, comps, for_cd, colon).name \in Names
         /\ Walk(s, path, comps, for_cd, colon) = [ok |-> Walk(s, path, comps, for_cd, colon).ok,
                                                   path |-> Walk(s, path, comps, for_cd, colon).path,
                                                   name |-> Walk(s, path, comps, for_cd, colon).name]
<1> DEFINE at    == Places(s, path, comps)
           stops == {i \in 1 .. Len(comps) : comps[i] # NoName /\ Kind(s, at[i - 1], comps[i]) # "dir"}
           stop  == CHOOSE i \in stops : \A j \in stops : i <= j
           way   == for_cd /\ stop = Len(comps) /\ ~colon /\ Kind(s, at[stop - 1], comps[stop]) \in Images
           w     == Walk(s, path, comps, for_cd, colon)
<1>1. Len(comps) \in Nat /\ \A i \in 1 .. Len(comps) : comps[i] \in Names
  OBVIOUS
<1>2. stops \subseteq 1 .. Len(comps) /\ \A i \in 1 .. Len(comps) : i \notin stops => IsStep(s, path, comps, i)
  BY Zenon DEF IsStep
<1>3. w = IF stops = {} THEN [ok |-> TRUE, path |-> at[Len(comps)], name |-> NoName]
          ELSE [ok |-> way, path |-> at[stop - 1], name |-> comps[stop]]
  BY Zenon DEF Walk
<1> SUFFICES OnPath(s, w.path) /\ w.path.part = path.part /\ w.name \in Names
            /\ w = [ok |-> w.ok, path |-> w.path, name |-> w.name]
  OBVIOUS
<1> HIDE DEF way, w, stops
<1>4. CASE stops = {}
  <2>1. OnPath(s, at[Len(comps)]) /\ at[Len(comps)].part = path.part
    BY <1>1, <1>2, <1>4, PlacesLegal
  <2> HIDE DEF at
  <2>2. w = [ok |-> TRUE, path |-> at[Len(comps)], name |-> NoName]
    BY <1>3, <1>4
  <2>3. w.ok = TRUE /\ w.path = at[Len(comps)] /\ w.name = NoName
    BY <2>2
  <2>4. QED BY <2>1, <2>2, <2>3, NoNameIsString
<1>5. CASE stops # {}
  <2>1. stop \in stops /\ \A j \in stops : stop <= j
    <3>1. stops \subseteq Nat
      BY <1>1, <1>2
    <3>2. \E i \in stops : \A j \in stops : i <= j
      BY <3>1, <1>5, Least
    <3>3. QED BY <3>2
  <2> HIDE DEF stop
  <2>2. stop - 1 \in Nat /\ stop - 1 <= Len(comps) /\ comps[stop] \in Names
    BY <1>1, <1>2, <2>1
  <2>3. \A i \in 1 .. stop - 1 : i \in 1 .. Len(comps) /\ i \notin stops
    BY <1>1, <1>2, <2>1
  <2>4. \A i \in 1 .. stop - 1 : IsStep(s, path, comps, i)
    BY <1>2, <2>3
  <2>5. OnPath(s, at[stop - 1]) /\ at[stop - 1].part = path.part
    BY <2>2, <2>4, PlacesLegal
  <2> HIDE DEF at
  <2>6. w = [ok |-> way, path |-> at[stop - 1], name |-> comps[stop]]
    BY <1>3, <1>5
  <2>7. w.ok = way /\ w.path = at[stop - 1] /\ w.name = comps[stop]
    BY <2>6
  <2>8. QED BY <2>2, <2>5, <2>6, <2>7
<1>6. QED BY <1>4, <1>5

LEMMA HereIsPath ==
  ASSUME NEW s, Sound(s), NEW p \in Part
  PROVE  OnPath(s, Here(s, p)) /\ Here(s, p).part = p
<1>1. s.partition \in [Part -> PlaceType] /\ Legal(p, s.partition[p])
  BY DEF Sound
<1>2. s.partition[p] \in PlaceType
  BY <1>1
<1>3. s.partition[p].dir \in Seq(Names) /\ s.partition[p].inner \in Seq(Names)
  BY <1>2 DEF PlaceType
<1>4. Here(s, p).part = p /\ Here(s, p).dir = s.partition[p].dir /\ Here(s, p).inner = s.partition[p].inner
      /\ Here(s, p) \in PathType
  BY <1>3 DEF Here, PathType
<1>5. fop(s, p) = s.partition[p].image.kind
  BY DEF fop
<1>6. Exists(p, s.partition[p].dir) /\ (fop(s, p) = "dnp" => InImage(s.partition[p].inner))
  BY <1>1, <1>5 DEF Legal
<1>7. QED BY <1>4, <1>6 DEF OnPath

LEMMA PathRight ==
  ASSUME NEW s, Sound(s), current_part \in Part, NEW in, in \in Given, NEW for_cd
  PROVE  OnPath(s, parse_path(s, in, for_cd).path) /\ parse_path(s, in, for_cd).name \in Names
<1> DEFINE r == parse_path(s, in, for_cd)
           p == parse_partition(in.part)
           w == Walk(s, Here(s, p), in.comps, for_cd, in.colon)
<1>1. in.part \in Nat /\ in.comps \in Seq(Names) /\ in.name \in Names
  BY DEF Given
<1>2. OnPath(s, Here(s, current_part))
  BY HereIsPath
<1>3. r = IF ~for_cd /\ ~in.colon THEN [ok |-> TRUE, path |-> Here(s, current_part), name |-> in.name]
          ELSE IF p > Parts THEN [ok |-> FALSE, path |-> Here(s, current_part), name |-> NoName]
          ELSE IF w.name = NoName THEN [w EXCEPT !.name = in.name] ELSE w
  BY Zenon DEF parse_path
<1>4. p > Parts \/ p \in Part
  BY <1>1, NavigatorAssumption DEF parse_partition, Part
<1>5. ASSUME p \in Part
      PROVE  OnPath(s, w.path) /\ w.name \in Names /\ w = [ok |-> w.ok, path |-> w.path, name |-> w.name]
  <2> HIDE DEF p
  <2>1. OnPath(s, Here(s, p))
    BY <1>5, HereIsPath
  <2>2. QED BY <1>1, <2>1, WalkRight
<1> SUFFICES OnPath(s, r.path) /\ r.name \in Names
  OBVIOUS
<1> HIDE DEF r, p, w
<1>6. CASE ~for_cd /\ ~in.colon
  <2>1. r = [ok |-> TRUE, path |-> Here(s, current_part), name |-> in.name]
    BY <1>3, <1>6
  <2>2. QED BY <1>1, <1>2, <2>1
<1>7. CASE ~(~for_cd /\ ~in.colon) /\ p > Parts
  <2>1. r = [ok |-> FALSE, path |-> Here(s, current_part), name |-> NoName]
    BY <1>3, <1>7
  <2>2. QED BY <1>2, <2>1, NoNameIsString
<1>8. CASE ~(~for_cd /\ ~in.colon) /\ ~(p > Parts) /\ w.name = NoName
  <2>1. r = [w EXCEPT !.name = in.name]
    BY <1>3, <1>8
  <2>2. w = [ok |-> w.ok, path |-> w.path, name |-> w.name] /\ OnPath(s, w.path)
    BY <1>4, <1>5, <1>8
  <2>3. r.path = w.path /\ r.name = in.name
    BY <2>1, <2>2
  <2>4. QED BY <1>1, <2>2, <2>3
<1>9. CASE ~(~for_cd /\ ~in.colon) /\ ~(p > Parts) /\ w.name # NoName
  <2>1. r = w
    BY <1>3, <1>9
  <2>2. QED BY <1>4, <1>5, <1>9, <2>1
<1>10. QED BY <1>6, <1>7, <1>8, <1>9

(***************************************************************************)
(* What the drivers do.                                                    *)
(***************************************************************************)
Put(s, p, place, files) == [partition |-> [s.partition EXCEPT ![p] = place], open |-> files, error |-> s.error]

LEMMA Changed ==
  ASSUME NEW s, Sound(s), NEW p \in Part, NEW place, place \in PlaceType, Legal(p, place),
         NEW open2, open2 = {} \/ (open2 = s.open /\ place.image = s.partition[p].image)
  PROVE  Sound(Put(s, p, place, open2)) /\ Put(s, p, place, open2).partition[p] = place
<1> DEFINE t == Put(s, p, place, open2)
<1>1. /\ s.partition \in [Part -> PlaceType] /\ s.open \in SUBSET OpenType /\ s.error \in {"ok", "bad"}
      /\ \A q \in Part : Legal(q, s.partition[q])
      /\ \A f \in s.open : f.broken \/ f.image = s.partition[f.part].image
  BY DEF Sound
<1>2. t.partition = [s.partition EXCEPT ![p] = place] /\ t.open = open2 /\ t.error = s.error
      /\ t = [partition |-> t.partition, open |-> t.open, error |-> t.error]
  BY DEF Put
<1> SUFFICES Sound(t) /\ t.partition[p] = place
  OBVIOUS
<1> HIDE DEF t
<1>3. t.partition[p] = place /\ \A q \in Part : q # p => t.partition[q] = s.partition[q]
  BY <1>1, <1>2
<1>4. t.partition \in [Part -> PlaceType] /\ open2 \in SUBSET OpenType
  BY <1>1, <1>2
<1>5. \A q \in Part : Legal(q, t.partition[q])
  <2> TAKE q \in Part
  <2>1. CASE q = p
    BY <1>3, <2>1
  <2>2. CASE q # p
    BY <1>1, <1>3, <2>2
  <2>3. QED BY <2>1, <2>2
<1>6. \A f \in t.open : f.broken \/ f.image = t.partition[f.part].image
  <2> TAKE f \in t.open
  <2>1. open2 = s.open /\ place.image = s.partition[p].image /\ f \in s.open
    BY <1>2
  <2>2. f.part \in Part
    BY <1>1, <2>1 DEF OpenType
  <2>3. t.partition[f.part].image = s.partition[f.part].image
    BY <1>3, <2>1, <2>2
  <2>4. QED BY <1>1, <2>1, <2>3
<1>7. t \in [partition : [Part -> PlaceType], open : SUBSET OpenType, error : {"ok", "bad"}]
  BY <1>1, <1>2, <1>4
<1>8. Sound(t)
  BY <1>5, <1>6, <1>7 DEF Sound
<1>9. QED BY <1>2, <1>3, <1>8

LEMMA PlaceFields ==
  ASSUME NEW s, Sound(s), NEW p \in Part
  PROVE  /\ s = [partition |-> s.partition, open |-> s.open, error |-> s.error]
         /\ DOMAIN s.partition = Part
         /\ s.partition[p] \in PlaceType /\ Legal(p, s.partition[p])
         /\ s.partition[p] = [dir |-> s.partition[p].dir, inner |-> s.partition[p].inner, image |-> s.partition[p].image]
<1>1. s \in [partition : [Part -> PlaceType], open : SUBSET OpenType, error : {"ok", "bad"}] /\ Legal(p, s.partition[p])
  BY DEF Sound
<1>2. s = [partition |-> s.partition, open |-> s.open, error |-> s.error] /\ s.partition \in [Part -> PlaceType]
  BY <1>1
<1>3. DOMAIN s.partition = Part /\ s.partition[p] \in PlaceType
  BY <1>2
<1> DEFINE e == s.partition[p]
<1>4. e = [dir |-> e.dir, inner |-> e.inner, image |-> e.image]
  <2>1. e \in [dir : Seq(Names), inner : Seq(Names), image : ImageType]
    BY <1>3 DEF PlaceType
  <2> HIDE DEF e
  <2>2. QED BY <2>1
<1>5. QED BY <1>1, <1>2, <1>3, <1>4

LEMMA Moved ==
  ASSUME NEW s, Sound(s), NEW path, OnPath(s, path)
  PROVE  Sound(update_current_dir(s, path))
<1> DEFINE p == path.part
           e == s.partition[p]
           place == [dir |-> path.dir, inner |-> path.inner, image |-> e.image]
           t == update_current_dir(s, path)
<1>1. p \in Part /\ path.dir \in Seq(Names) /\ path.inner \in Seq(Names) /\ Exists(p, path.dir)
      /\ (fop(s, p) = "dnp" => InImage(path.inner))
  BY DEF OnPath, PathType
<1> HIDE DEF p
<1>2. /\ s = [partition |-> s.partition, open |-> s.open, error |-> s.error] /\ DOMAIN s.partition = Part
      /\ e \in PlaceType /\ Legal(p, e) /\ e = [dir |-> e.dir, inner |-> e.inner, image |-> e.image]
  BY <1>1, PlaceFields
<1>3. fop(s, p) = e.image.kind
  BY DEF fop
<1> HIDE DEF e
<1>4. t = [s EXCEPT !.partition = [s.partition EXCEPT ![p] = place]]
  BY DEF update_current_dir, p, e
<1>5. t = Put(s, p, place, s.open)
  BY <1>2, <1>4 DEF Put
<1>6. e.image \in ImageType /\ place \in PlaceType /\ place.image = e.image /\ place.dir = path.dir /\ place.inner = path.inner
  BY <1>1, <1>2 DEF PlaceType
<1>7. Legal(p, place)
  BY <1>1, <1>2, <1>3, <1>6 DEF Legal
<1> HIDE DEF t, place
<1>8. Sound(t)
  BY <1>1, <1>5, <1>6, <1>7, Changed DEF e
<1>9. QED BY <1>8 DEF t

LEMMA Imaged ==
  ASSUME NEW s, Sound(s), NEW p \in Part, NEW image, image \in ImageType, Exists(p, image.dir),
         image.kind = "dnp" => InImage(s.partition[p].inner), image.kind = None => image = NoImage
  PROVE  LET t == [free_user_buffers(s) EXCEPT !.partition[p].image = image]
         IN Sound(t) /\ fop(t, p) = image.kind
<1> DEFINE e == s.partition[p]
           place == [dir |-> e.dir, inner |-> e.inner, image |-> image]
           t == [free_user_buffers(s) EXCEPT !.partition[p].image = image]
<1>1. /\ s = [partition |-> s.partition, open |-> s.open, error |-> s.error] /\ DOMAIN s.partition = Part
      /\ e \in PlaceType /\ Legal(p, e) /\ e = [dir |-> e.dir, inner |-> e.inner, image |-> e.image]
  BY PlaceFields
<1>2. free_user_buffers(s) = [partition |-> s.partition, open |-> {}, error |-> s.error]
  BY <1>1 DEF free_user_buffers
<1>3. t = [partition |-> [s.partition EXCEPT ![p].image = image], open |-> {}, error |-> s.error]
  BY <1>2
<1>4. [s.partition EXCEPT ![p].image = image] = [s.partition EXCEPT ![p] = place]
  <2>1. [s.partition EXCEPT ![p].image = image] = [s.partition EXCEPT ![p] = [e EXCEPT !.image = image]]
    OBVIOUS
  <2>2. [e EXCEPT !.image = image] = place
    BY <1>1
  <2>3. QED BY <2>1, <2>2
<1>5. place \in PlaceType /\ place.image = image /\ place.dir = e.dir /\ place.inner = e.inner
  BY <1>1 DEF PlaceType
<1>6. Legal(p, place)
  BY <1>1, <1>5 DEF Legal
<1> SUFFICES Sound(t) /\ fop(t, p) = image.kind
  OBVIOUS
<1> HIDE DEF t, place
<1>7. t = Put(s, p, place, {})
  BY <1>3, <1>4 DEF Put
<1>8. Sound(t) /\ t.partition[p] = place
  BY <1>5, <1>6, <1>7, Changed
<1>9. fop(t, p) = image.kind
  BY <1>5, <1>8 DEF fop
<1>10. QED BY <1>8, <1>9

LEMMA FailRight ==
  ASSUME NEW s, Sound(s)
  PROVE  Sound(Fail(s)) /\ Fail(s).partition = s.partition
<1>1. s \in [partition : [Part -> PlaceType], open : SUBSET OpenType, error : {"ok", "bad"}]
  BY DEF Sound
<1>2. /\ Fail(s).partition = s.partition /\ Fail(s).open = s.open
      /\ Fail(s) \in [partition : [Part -> PlaceType], open : SUBSET OpenType, error : {"ok", "bad"}]
  BY <1>1 DEF Fail
<1>3. QED BY <1>2 DEF Sound

LEMMA UpRight ==
  ASSUME TreeRight, NEW s, NEW path, OnPath(s, path)
  PROVE  /\ path.dir # <<>> => OnPath(s, [path EXCEPT !.dir = Front(@)])
         /\ path.inner # <<>> /\ fop(s, path.part) = "dnp" => OnPath(s, [path EXCEPT !.inner = Front(@)])
<1>1. /\ path \in [part : Part, dir : Seq(Names), inner : Seq(Names)] /\ path.part \in Part
      /\ path.dir \in tree[path.part] \cup {<<>>}
      /\ fop(s, path.part) = "dnp" => path.inner \in Inner \cup {<<>>}
  BY DEF OnPath, PathType, Exists, InImage
<1>2. IsTree(tree[path.part]) /\ IsTree(Inner)
  BY <1>1, NavigatorAssumption DEF TreeRight
<1>3. ASSUME path.dir # <<>> PROVE OnPath(s, [path EXCEPT !.dir = Front(@)])
  <2>1. Front(path.dir) \in tree[path.part] \cup {<<>>} /\ Front(path.dir) \in Seq(Names)
    BY <1>1, <1>2, <1>3, UpIsThere
  <2> DEFINE f == Front(path.dir)
             q == [path EXCEPT !.dir = f]
  <2> HIDE DEF f
  <2>2. q.part = path.part /\ q.dir = f /\ q.inner = path.inner /\ (f \in Seq(Names) => q \in PathType)
    BY <1>1 DEF PathType
  <2> HIDE DEF q
  <2>3. OnPath(s, q)
    BY <1>1, <2>1, <2>2 DEF OnPath, Exists, InImage, f
  <2>4. QED BY <2>3 DEF q, f
<1>4. ASSUME path.inner # <<>>, fop(s, path.part) = "dnp" PROVE OnPath(s, [path EXCEPT !.inner = Front(@)])
  <2>1. Front(path.inner) \in Inner \cup {<<>>} /\ Front(path.inner) \in Seq(Names)
    BY <1>1, <1>2, <1>4, UpIsThere
  <2> DEFINE f == Front(path.inner)
             q == [path EXCEPT !.inner = f]
  <2> HIDE DEF f
  <2>2. q.part = path.part /\ q.dir = path.dir /\ q.inner = f /\ (f \in Seq(Names) => q \in PathType)
    BY <1>1 DEF PathType
  <2> HIDE DEF q
  <2>3. OnPath(s, q)
    BY <1>1, <2>1, <2>2 DEF OnPath, Exists, InImage, f
  <2>4. QED BY <2>3 DEF q, f
<1>5. QED BY <1>3, <1>4

(* A change of directory that succeeded leads to a place that is there (an   *)
(* image that was just mounted, from its root); one that failed leaves what  *)
(* is mounted as it should be.                                              *)
Went(c) == IF c.ok THEN Sound(update_current_dir(c.s, c.path)) ELSE Sound(c.s)

LEMMA OkWent ==
  ASSUME NEW s, Sound(s), NEW path, OnPath(s, path)
  PROVE  Went(Ok(s, path))
<1>1. Ok(s, path).s = s /\ Ok(s, path).path = path /\ Ok(s, path).ok = TRUE
  BY DEF Ok
<1>2. QED BY <1>1, Moved DEF Went

LEMMA RefusedWent ==
  ASSUME NEW s, Sound(s), NEW path
  PROVE  Went([ok |-> FALSE, s |-> s, path |-> path])
  BY DEF Went

LEMMA UnmountRight ==
  ASSUME NEW s, Sound(s), NEW p \in Part
  PROVE  Sound(image_unmount(s, p)) /\ fop(image_unmount(s, p), p) = None
<1>1. NoImage \in ImageType /\ NoImage.dir = <<>> /\ NoImage.kind = None
  BY DEF NoImage, ImageType
<1>2. Exists(p, NoImage.dir)
  BY <1>1 DEF Exists
<1>3. NoImage.kind # "dnp"
  BY <1>1 DEF None
<1>4. QED BY <1>1, <1>2, <1>3, Imaged DEF image_unmount

LEMMA UnmountPath ==
  ASSUME NEW s, Sound(s), NEW path, OnPath(s, path)
  PROVE  Sound(image_unmount(s, path.part)) /\ OnPath(image_unmount(s, path.part), path)
<1>1. path.part \in Part
  BY DEF OnPath, PathType
<1>2. Sound(image_unmount(s, path.part)) /\ fop(image_unmount(s, path.part), path.part) = None
  BY <1>1, UnmountRight
<1>3. QED BY <1>2 DEF OnPath, None

LEMMA FreeRight ==
  ASSUME NEW s, Sound(s)
  PROVE  Sound(free_user_buffers(s)) /\ free_user_buffers(s).partition = s.partition
<1>1. s \in [partition : [Part -> PlaceType], open : SUBSET OpenType, error : {"ok", "bad"}]
  BY DEF Sound
<1>2. /\ free_user_buffers(s).partition = s.partition /\ free_user_buffers(s).open = {}
      /\ free_user_buffers(s) \in [partition : [Part -> PlaceType], open : SUBSET OpenType, error : {"ok", "bad"}]
  BY <1>1 DEF free_user_buffers
<1>3. QED BY <1>2 DEF Sound

(* An image that is mounted is in the directory that the path is at.          *)
LEMMA MountRight ==
  ASSUME NEW s, Sound(s), NEW path, OnPath(s, path), NEW name \in Names,
         Kind(s, path, name) \in Images, fop(s, path.part) = None
  PROVE  Went(d64_mount(free_user_buffers(s), path, name))
<1> DEFINE u == free_user_buffers(s)
           k == Kind(u, path, name)
           image == [kind |-> k, dir |-> path.dir, name |-> name]
           place == [path EXCEPT !.inner = <<>>]
           t == [u EXCEPT !.partition[path.part].image = image]
           c == d64_mount(u, path, name)
<1>1. path \in [part : Part, dir : Seq(Names), inner : Seq(Names)] /\ path.part \in Part /\ path.dir \in Seq(Names)
      /\ Exists(path.part, path.dir)
  BY DEF OnPath, PathType
<1>2. Sound(u) /\ u.partition = s.partition
  BY FreeRight
<1>3. k = Kind(s, path, name)
  BY <1>2 DEF Kind, IsDir, fop
<1>4. CASE k = "invalid"
  <2>1. c = [ok |-> FALSE, s |-> Fail(u), path |-> path]
    BY <1>4 DEF d64_mount
  <2>2. QED BY <1>2, <2>1, FailRight, RefusedWent
<1>5. CASE k # "invalid"
  <2> DEFINE e == s.partition[path.part]
             new == [dir |-> path.dir, inner |-> <<>>, image |-> image]
  <2>1. c = [ok |-> TRUE, path |-> place, s |-> t]
    BY <1>5, Zenon DEF d64_mount
  <2>2. image \in ImageType /\ image.dir = path.dir /\ image.kind = k /\ k # None
    BY <1>1, <1>3 DEF ImageType, Images, None
  <2>3. place.part = path.part /\ place.dir = path.dir /\ place.inner = <<>>
    BY <1>1
  <2>4. s = [partition |-> s.partition, open |-> s.open, error |-> s.error] /\ DOMAIN s.partition = Part
        /\ e = [dir |-> e.dir, inner |-> e.inner, image |-> e.image]
    BY <1>1, PlaceFields
  <2>5. u = [partition |-> s.partition, open |-> {}, error |-> s.error]
    BY <2>4 DEF free_user_buffers
  <2> HIDE DEF image
  <2>6. t = [partition |-> [s.partition EXCEPT ![path.part].image = image], open |-> {}, error |-> s.error]
    <3> HIDE DEF u
    <3>1. QED BY <2>5
  <2> HIDE DEF t, place
  <2>7. update_current_dir(t, place) = Put(s, path.part, new, {})
    <3> DEFINE P == [s.partition EXCEPT ![path.part].image = image]
    <3>1. t.partition = P /\ P[path.part].image = image
      BY <1>1, <2>4, <2>6
    <3>2. [P EXCEPT ![path.part] = new] = [s.partition EXCEPT ![path.part] = new]
      OBVIOUS
    <3>3. update_current_dir(t, place) = [t EXCEPT !.partition = [t.partition EXCEPT ![path.part] = new]]
      BY <2>3, <3>1 DEF update_current_dir
    <3> HIDE DEF P, new
    <3>4. update_current_dir(t, place) = [t EXCEPT !.partition = [s.partition EXCEPT ![path.part] = new]]
      BY <3>1, <3>2, <3>3
    <3>5. QED BY <2>6, <3>4 DEF Put
  <2>8. new \in PlaceType /\ new.dir = path.dir /\ new.inner = <<>> /\ new.image = image
    BY <1>1, <2>2 DEF PlaceType
  <2> HIDE DEF new
  <2>9. Legal(path.part, new)
    BY <1>1, <2>2, <2>8 DEF Legal, InImage
  <2>10. Sound(Put(s, path.part, new, {}))
    BY <1>1, <2>8, <2>9, Changed
  <2>11. c.ok = TRUE /\ c.s = t /\ c.path = place
    BY <2>1
  <2>12. QED BY <2>7, <2>10, <2>11 DEF Went
<1>6. QED BY <1>4, <1>5

LEMMA CardWent ==
  ASSUME TreeRight, NEW s, Sound(s), NEW path, OnPath(s, path), NEW name \in Names, fop(s, path.part) = None
  PROVE  Went(fat_chdir(s, path, name)) /\ Went(vfs_chdir(s, path, name))
<1> DEFINE up == [path EXCEPT !.dir = Front(@)]
           k  == Kind(s, path, name)
<1>1. path.dir # <<>> => OnPath(s, up)
  BY UpRight
<1>2. Went([ok |-> FALSE, s |-> Fail(s), path |-> path])
  BY FailRight, RefusedWent
<1>3. Went(Ok(s, path)) /\ (path.dir # <<>> => Went(Ok(s, up)))
  BY <1>1, OkWent
<1>4. k = "dir" => Went(Ok(s, Into(s, path, name)))
  BY KindIsDir, IntoIsPath, OkWent
<1>5. k \in Images => Went(d64_mount(free_user_buffers(s), path, name))
  BY MountRight
<1>6. "dir" \notin Images
  BY DEF Images
<1>7. Went(fat_chdir(s, path, name))
  <2>1. CASE name = "_"
    BY <1>2, <1>3, <2>1, Zenon DEF fat_chdir
  <2>2. CASE name # "_" /\ k = "dir"
    BY <1>4, <1>6, <2>2, Zenon DEF fat_chdir
  <2>3. CASE name # "_" /\ k \in Images
    BY <1>5, <1>6, <2>3, Zenon DEF fat_chdir
  <2>4. CASE name # "_" /\ k # "dir" /\ k \notin Images
    <3>1. fat_chdir(s, path, name) = Ok(s, path)
      BY <2>4, Zenon DEF fat_chdir
    <3>2. QED BY <1>3, <3>1
  <2>5. QED BY <2>1, <2>2, <2>3, <2>4
<1>8. Went(vfs_chdir(s, path, name))
  <2>1. CASE name # "_"
    BY <1>7, <2>1, Zenon DEF vfs_chdir
  <2>2. CASE name = "_" /\ path.dir # <<>>
    <3>1. vfs_chdir(s, path, name) = Ok(s, up)
      BY <2>2, Zenon DEF vfs_chdir
    <3>2. QED BY <1>3, <2>2, <3>1
  <2>3. CASE name = "_" /\ path.dir = <<>>
    <3>1. path \in [part : Part, dir : Seq(Names), inner : Seq(Names)]
      BY DEF OnPath, PathType
    <3>2. [path EXCEPT !.dir = path.dir] = path
      BY <3>1
    <3>3. vfs_chdir(s, path, name) = Ok(s, [path EXCEPT !.dir = path.dir])
      BY <2>3, Zenon DEF vfs_chdir
    <3>4. QED BY <1>3, <3>2, <3>3
  <2>4. QED BY <2>1, <2>2, <2>3
<1>9. QED BY <1>7, <1>8

LEMMA ImageWent ==
  ASSUME TreeRight, NEW s, Sound(s), NEW path, OnPath(s, path), NEW name \in Names,
         fop(s, path.part) # None, name = "_" \/ Kind(s, path, name) # None
  PROVE  Went(d64_chdir(s, path, name))
<1> DEFINE up == [path EXCEPT !.inner = Front(@)]
<1>1. Went(image_chdir(s, path, name))
  <2>1. Went(Ok(image_unmount(s, path.part), path))
    BY UnmountPath, OkWent
  <2>2. Went([ok |-> FALSE, s |-> s, path |-> path])
    BY RefusedWent
  <2>3. QED BY <2>1, <2>2, Zenon DEF image_chdir
<1>2. CASE fop(s, path.part) # "dnp" \/ (name = "_" /\ path.inner = <<>>)
  BY <1>1, <1>2, Zenon DEF d64_chdir
<1>3. CASE fop(s, path.part) = "dnp" /\ name = "_" /\ path.inner # <<>>
  <2>1. OnPath(s, up)
    BY <1>3, UpRight
  <2>2. d64_chdir(s, path, name) = Ok(s, up)
    BY <1>3, Zenon DEF d64_chdir
  <2>3. QED BY <2>1, <2>2, OkWent
<1>4. CASE fop(s, path.part) = "dnp" /\ name # "_"
  <2>1. d64_chdir(s, path, name) = Ok(s, Into(s, path, name))
    BY <1>4, Zenon DEF d64_chdir
  <2>2. IsDir(s, path, name)
    <3>1. Kind(s, path, name) # None /\ fop(s, path.part) # None
      BY <1>4
    <3>2. QED BY <3>1, KindIsDir
  <2>3. QED BY <2>1, <2>2, IntoIsPath, OkWent
<1>5. QED BY <1>2, <1>3, <1>4

(* Whatever CD is given, afterwards every partition is at a place there is,   *)
(* and no file is open in an image that is mounted no more.                  *)
LEMMA ChdirRight ==
  ASSUME TreeRight, current_part \in Part, NEW s, Sound(s), NEW in, in \in Given
  PROVE  Sound(do_chdir(s, in))
<1> DEFINE r == parse_path(s, in, TRUE)
           c == w_chdir(s, r.path, r.name)
<1>1. OnPath(s, r.path) /\ r.name \in Names
  BY PathRight
<1>2. Sound(Fail(s)) /\ Sound(update_current_dir(s, r.path))
  BY <1>1, FailRight, Moved
<1>3. ASSUME r.name = "_" \/ Kind(s, r.path, r.name) # None
      PROVE  Went(c)
  <2> HIDE DEF r
  <2>1. CASE fop(s, r.path.part) # None
    <3>1. c = d64_chdir(s, r.path, r.name)
      BY <2>1 DEF w_chdir
    <3>2. Went(d64_chdir(s, r.path, r.name))
      BY <1>1, <1>3, <2>1, ImageWent
    <3>3. QED BY <3>1, <3>2
  <2>2. CASE fop(s, r.path.part) = None
    <3>1. c = fat_chdir(s, r.path, r.name) \/ c = vfs_chdir(s, r.path, r.name)
      BY <2>2 DEF w_chdir
    <3>2. Went(fat_chdir(s, r.path, r.name)) /\ Went(vfs_chdir(s, r.path, r.name))
      BY <1>1, <2>2, CardWent
    <3>3. QED BY <3>1, <3>2
  <2>3. QED BY <2>1, <2>2
<1>4. \/ do_chdir(s, in) = Fail(s)
      \/ do_chdir(s, in) = update_current_dir(s, r.path)
      \/ /\ r.name = "_" \/ Kind(s, r.path, r.name) # None
         /\ do_chdir(s, in) = IF c.ok THEN update_current_dir(c.s, c.path) ELSE c.s
  BY Zenon DEF do_chdir
<1> HIDE DEF r, c
<1>5. QED BY <1>2, <1>3, <1>4 DEF Went

(***************************************************************************)
(* The inductive invariant.                                                *)
(***************************************************************************)
SoundNow ==
  /\ partition \in [Part -> PlaceType] /\ open \in SUBSET OpenType /\ error \in {"ok", "bad"}
  /\ \A p \in Part : Legal(p, partition[p])
  /\ \A f \in open : f.broken \/ f.image = partition[f.part].image

PlacesRight == TreeRight /\ SoundNow /\ current_part \in Part

(* There is such a list in that directory, and the directory is there.        *)
Holds(path, list) == IF list = Made THEN ImagesAt(path.part, path.dir) # {} ELSE ListAt(path, list) # {}
InDirectory(path, list) == Exists(path.part, path.dir) /\ Holds(path, list)

Upto(lines, k) == {i \in Entries(lines) : i <= k}
Count(lines)   == Cardinality(Entries(lines))

(* While a list is read, the number of the line is that of the entry it is    *)
(* the turn of, or one past the end, which stands for the first, or LastLine, *)
(* which stands for the last.                                               *)
Searching ==
  /\ scan.at \in 1 .. Len(Lines) + 1
  /\ scan.effective_line = Cardinality(Upto(Lines, scan.at - 1)) /\ scan.effective_line <= linenum
  /\ \/ linenum = due - 1
     \/ scan.restarts = 0 /\ due = 1 /\ linenum = Count(Lines)
     \/ scan.restarts = 0 /\ due = Count(Lines) /\ linenum = LastLine

Found ==
  /\ scan.entry \in Entries(Lines) /\ Cardinality(Upto(Lines, scan.entry)) = due
  /\ linenum = due - 1

ListRight ==
  /\ swappath \in PathType
  /\ Readable => /\ InDirectory(swappath, swaplist)
                 /\ due \in 1 .. Count(Lines)
                 /\ pc = "scan" => Searching
                 /\ pc \in {"idle", "mount"} => Found
  /\ pc \in {"idle", "scan", "mount"} /\ (pc = "mount" => Readable)

ScanType == [at : Nat, effective_line : Nat, entry : Nat, olderror : {"ok", "bad"}, restarts : {0, 1}]

NavigatorInv == PlacesRight /\ ListRight /\ scan \in ScanType

(***************************************************************************)
(* Lists and their entries.                                                *)
(***************************************************************************)
LEMMA SeqOfSet ==
  ASSUME NEW S, IsFiniteSet(S)
  PROVE  SetToSeq(S) \in [1 .. Cardinality(S) -> S] /\ Cardinality(S) \in Nat
<1>1. PICK n \in Nat : ExistsBijection(1 .. n, S)
  BY FS_NatBijection
<1>2. Cardinality(S) = n
  BY <1>1, FS_CountingElements
<1>3. PICK f \in [1 .. n -> S] : IsInjective(f)
  BY <1>1 DEF ExistsBijection, Bijection, Injection, IsInjective
<1>4. \E g \in [1 .. Cardinality(S) -> S] : IsInjective(g)
  BY <1>2, <1>3
<1>5. QED BY <1>2, <1>4 DEF SetToSeq

LEMMA ImagesAreFinite ==
  ASSUME NEW p, NEW dir
  PROVE  IsFiniteSet(ImagesAt(p, dir)) /\ ImagesAt(p, dir) \subseteq Names
         /\ (ImagesAt(p, dir) # {} => \E f \in Files : f.part = p /\ f.dir = dir)
         /\ (ImagesAt(p, dir) # {} => Cardinality(ImagesAt(p, dir)) < LastLine)
<1> DEFINE G == {g \in Files : g.part = p /\ g.dir = dir /\ g.kind \in Images}
           name == [g \in G |-> g.name]
<1>1. IsFiniteSet(G)
  BY NavigatorAssumption, FS_Subset
<1>2. name \in Surjection(G, ImagesAt(p, dir))
  <2>1. ImagesAt(p, dir) = {g.name : g \in G}
    BY DEF ImagesAt
  <2> HIDE DEF G
  <2>2. QED BY <2>1 DEF Surjection
<1>3. IsFiniteSet(ImagesAt(p, dir))
  <2> HIDE DEF G, name
  <2>1. QED BY <1>1, <1>2, FS_Surjection
<1>4. ImagesAt(p, dir) \subseteq Names
  BY NavigatorAssumption DEF ImagesAt, File
<1>5. ImagesAt(p, dir) # {} => \E f \in Files : f.part = p /\ f.dir = dir
  BY DEF ImagesAt
<1>6. ASSUME ImagesAt(p, dir) # {} PROVE Cardinality(ImagesAt(p, dir)) < LastLine
  <2>1. PICK f \in Files : f.part = p /\ f.dir = dir
    BY <1>5, <1>6
  <2>2. Cardinality(ImagesAt(f.part, f.dir)) < LastLine
    BY NavigatorAssumption
  <2>3. QED BY <2>1, <2>2
<1>7. QED BY <1>3, <1>4, <1>5, <1>6

LEMMA EntriesAreFinite ==
  ASSUME NEW lines, lines \in Seq(Line)
  PROVE  /\ IsFiniteSet(Entries(lines)) /\ Cardinality(Entries(lines)) \in Nat
         /\ Entries(lines) \subseteq 1 .. Len(lines) /\ Len(lines) \in Nat
         /\ Entries(lines) # {} => Cardinality(Entries(lines)) > 0
<1>1. Len(lines) \in Nat /\ DOMAIN lines = 1 .. Len(lines)
  OBVIOUS
<1>2. Entries(lines) \subseteq 1 .. Len(lines)
  BY <1>1 DEF Entries
<1>3. IsFiniteSet(1 .. Len(lines))
  BY <1>1, FS_Interval
<1>4. IsFiniteSet(Entries(lines))
  BY <1>2, <1>3, FS_Subset
<1>5. Cardinality(Entries(lines)) \in Nat
  BY <1>4, FS_CardinalityType
<1>6. Cardinality(Entries(lines)) = 0 <=> Entries(lines) = {}
  BY <1>4, FS_EmptySet
<1>7. QED BY <1>1, <1>2, <1>4, <1>5, <1>6

LEMMA UptoGrows ==
  ASSUME NEW lines, lines \in Seq(Line), NEW k \in Nat
  PROVE  /\ IsFiniteSet(Upto(lines, k)) /\ Cardinality(Upto(lines, k)) \in Nat
         /\ Cardinality(Upto(lines, k)) <= Count(lines)
         /\ k + 1 \in Entries(lines) => Cardinality(Upto(lines, k + 1)) = Cardinality(Upto(lines, k)) + 1
         /\ k + 1 \notin Entries(lines) => Upto(lines, k + 1) = Upto(lines, k)
         /\ k = 0 => Upto(lines, k) = {}
         /\ k >= Len(lines) => Upto(lines, k) = Entries(lines)
<1> DEFINE E == Entries(lines)
<1>1. IsFiniteSet(E) /\ E \subseteq 1 .. Len(lines) /\ Len(lines) \in Nat
  BY EntriesAreFinite
<1>2. Upto(lines, k) \in SUBSET E
  BY DEF Upto
<1>3. IsFiniteSet(Upto(lines, k)) /\ Cardinality(Upto(lines, k)) <= Cardinality(E)
  BY <1>1, <1>2, FS_Subset
<1>4. Cardinality(Upto(lines, k)) \in Nat
  BY <1>3, FS_CardinalityType
<1>5. \A i \in E : i \in Nat /\ i >= 1 /\ i <= Len(lines)
  BY <1>1
<1>6. Upto(lines, k) = {i \in E : i <= k} /\ Upto(lines, k + 1) = {i \in E : i <= k + 1}
  BY DEF Upto
<1> HIDE DEF E
<1>7. ASSUME k + 1 \in E PROVE Cardinality(Upto(lines, k + 1)) = Cardinality(Upto(lines, k)) + 1
  <2>1. Upto(lines, k + 1) = Upto(lines, k) \cup {k + 1}
    BY <1>5, <1>6, <1>7
  <2>2. k + 1 \notin Upto(lines, k)
    BY <1>6
  <2>3. QED BY <1>3, <2>1, <2>2, FS_AddElement
<1>8. ASSUME k + 1 \notin E PROVE Upto(lines, k + 1) = Upto(lines, k)
  BY <1>5, <1>6, <1>8
<1>9. k = 0 => Upto(lines, k) = {}
  BY <1>5, <1>6
<1>10. k >= Len(lines) => Upto(lines, k) = E
  <2> SUFFICES ASSUME k >= Len(lines) PROVE \A i \in E : i <= k
    BY <1>6
  <2>1. QED BY <1>1, <1>5
<1>11. QED BY <1>3, <1>4, <1>7, <1>8, <1>9, <1>10 DEF E, Count

LEMMA LinesRight ==
  ASSUME NEW path, NEW list, Holds(path, list)
  PROVE  /\ LinesOf(path, list) \in Seq(Line)
         /\ Count(LinesOf(path, list)) \in Nat \ {0} /\ Count(LinesOf(path, list)) < LastLine
<1> DEFINE L == LinesOf(path, list)
<1>1. /\ L \in Seq(Line) /\ Entries(L) # {} /\ Cardinality(Entries(L)) < LastLine
  <2>1. CASE list = Made
    <3> DEFINE S == ImagesAt(path.part, path.dir)
               n == SetToSeq(S)
               line(i) == [kind |-> "entry", cd |-> [part |-> 0, comps |-> <<>>, colon |-> TRUE, name |-> n[i]]]
    <3>1. S # {} /\ IsFiniteSet(S) /\ S \subseteq Names /\ Cardinality(S) < LastLine
      BY <2>1, ImagesAreFinite DEF Holds
    <3>2. n \in [1 .. Cardinality(S) -> S] /\ Cardinality(S) \in Nat
      BY <3>1, SeqOfSet
    <3>3. L = [i \in DOMAIN n |-> line(i)]
      BY <2>1 DEF LinesOf, ImagesIn
    <3> HIDE DEF n, S, L
    <3>4. L = [i \in 1 .. Cardinality(S) |-> line(i)]
      BY <3>2, <3>3
    <3>5. \A i \in 1 .. Cardinality(S) : line(i) \in Line /\ line(i).kind = "entry"
      <4> TAKE i \in 1 .. Cardinality(S)
      <4>1. n[i] \in Names
        BY <3>1, <3>2
      <4>2. <<>> \in Seq(Names)
        OBVIOUS
      <4>3. [part |-> 0, comps |-> <<>>, colon |-> TRUE, name |-> n[i]] \in Given
        BY <4>1, <4>2 DEF Given
      <4>4. QED BY <4>3 DEF Line
    <3> HIDE DEF line
    <3>6. L \in Seq(Line)
      BY <3>2, <3>4, <3>5
    <3>7. Entries(L) = 1 .. Cardinality(S)
      BY <3>4, <3>5 DEF Entries
    <3>8. Cardinality(S) # 0
      BY <3>1, FS_EmptySet
    <3>9. Cardinality(1 .. Cardinality(S)) = Cardinality(S)
      BY <3>2, FS_Interval
    <3>10. 1 \in 1 .. Cardinality(S)
      BY <3>2, <3>8
    <3>11. QED BY <3>1, <3>6, <3>7, <3>9, <3>10
  <2>2. CASE list # Made
    <3>1. ListAt(path, list) # {} /\ ListAt(path, list) \subseteq Lists
      BY <2>2 DEF Holds, ListAt
    <3>2. PICK l \in Lists : L = l.lines
      BY <2>2, <3>1 DEF LinesOf
    <3> HIDE DEF L
    <3>3. QED BY <3>2, NavigatorAssumption DEF List
  <2>3. QED BY <2>1, <2>2
<1> HIDE DEF L
<1>2. Cardinality(Entries(L)) \in Nat /\ Cardinality(Entries(L)) > 0
  BY <1>1, EntriesAreFinite
<1>3. QED BY <1>1, <1>2 DEF Count, L

(***************************************************************************)
(* The tree of directories.                                                *)
(***************************************************************************)
LEMMA FrontOfAppend ==
  ASSUME NEW dir, dir \in Seq(Names), NEW name, name \in Names
  PROVE  /\ Append(dir, name) \in Seq(Names) /\ Append(dir, name) # <<>> /\ Append(dir, name) # dir
         /\ Front(Append(dir, name)) = dir
<1> DEFINE s == Append(dir, name)
<1>1. /\ s \in Seq(Names) /\ Len(s) = Len(dir) + 1 /\ Len(dir) \in Nat
      /\ \A i \in 1 .. Len(dir) : s[i] = dir[i]
  BY AppendProperties
<1>2. s # <<>> /\ s # dir
  BY <1>1
<1> HIDE DEF s
<1>3. Front(s) = SubSeq(s, 1, Len(dir))
  BY <1>1 DEF Front
<1>4. SubSeq(s, 1, Len(dir)) = [i \in 1 .. Len(dir) |-> s[i]]
  BY <1>1
<1>5. [i \in 1 .. Len(dir) |-> s[i]] = [i \in 1 .. Len(dir) |-> dir[i]]
  BY <1>1
<1>6. dir = [i \in 1 .. Len(dir) |-> dir[i]]
  OBVIOUS
<1>7. QED BY <1>1, <1>2, <1>3, <1>4, <1>5, <1>6 DEF s

LEMMA TreeGrows ==
  ASSUME NEW dirs, IsTree(dirs), NEW dir, dir \in Seq(Names), dir \in dirs \cup {<<>>}, NEW name, name \in Names
  PROVE  IsTree(dirs \cup {Append(dir, name)})
<1>1. Append(dir, name) \in Seq(Names) /\ Front(Append(dir, name)) = dir
  BY FrontOfAppend
<1> DEFINE new == Append(dir, name)
<1> HIDE DEF new
<1>2. new \in Seq(Names) /\ Front(new) = dir
  BY <1>1 DEF new
<1>3. IsTree(dirs \cup {new})
  BY <1>2 DEF IsTree
<1>4. QED BY <1>3 DEF new

LEMMA TreeShrinks ==
  ASSUME NEW dirs, IsTree(dirs), NEW old, \A e \in dirs : e = <<>> \/ Front(e) # old
  PROVE  IsTree(dirs \ {old})
BY DEF IsTree

(***************************************************************************)
(* What is the same in the state and in what CD is given.                   *)
(***************************************************************************)
LEMMA SystemSound ==
  ASSUME NEW e \in {"ok", "bad"}
  PROVE  SoundNow => Sound(System) /\ Sound([System EXCEPT !.error = e])
<1> SUFFICES ASSUME SoundNow PROVE Sound(System) /\ Sound([System EXCEPT !.error = e])
  OBVIOUS
<1>1. \A x \in {"ok", "bad"} : Sound([partition |-> partition, open |-> open, error |-> x])
  BY DEF Sound, SoundNow
<1>2. [System EXCEPT !.error = e] = [partition |-> partition, open |-> open, error |-> e]
  BY DEF System
<1>3. System = [partition |-> partition, open |-> open, error |-> error] /\ error \in {"ok", "bad"}
  BY DEF System, SoundNow
<1>4. QED BY <1>1, <1>2, <1>3

LEMMA TakenOver ==
  ASSUME NEW t, Sound(t), tree' = tree, partition' = t.partition, open' = t.open, error' \in {"ok", "bad"}
  PROVE  SoundNow'
<1>1. /\ t.partition \in [Part -> PlaceType] /\ t.open \in SUBSET OpenType
      /\ \A p \in Part : Legal(p, t.partition[p])
      /\ \A f \in t.open : f.broken \/ f.image = t.partition[f.part].image
  BY DEF Sound
<1>2. \A p \in Part : Legal(p, partition[p])'
  BY <1>1 DEF Legal, Exists
<1>3. QED BY <1>1, <1>2 DEF SoundNow

LEMMA SameTree ==
  ASSUME TreeRight, tree' = tree
  PROVE  TreeRight'
BY DEF TreeRight

LEMMA SamePlaces ==
  ASSUME PlacesRight, UNCHANGED <<partition, tree, current_part>>,
         \A f \in open' : f \in open, error' \in {"ok", "bad"}
  PROVE  PlacesRight'
<1>1. TreeRight' /\ current_part' \in Part
  BY SameTree DEF PlacesRight
<1>2. SoundNow /\ open' \in SUBSET OpenType
  BY DEF PlacesRight, SoundNow
<1>3. \A p \in Part : Legal(p, partition[p])'
  BY <1>2 DEF SoundNow, Legal, Exists
<1>4. SoundNow'
  BY <1>2, <1>3 DEF SoundNow
<1>5. QED BY <1>1, <1>4 DEF PlacesRight

(***************************************************************************)
(* The places: what a step does to partitions, directories and open files.  *)
(***************************************************************************)
LEMMA ChdirStep ==
  ASSUME NavigatorInv, parse_chdir
  PROVE  PlacesRight'
<1>1. PICK in \in Cds : LET s == do_chdir([System EXCEPT !.error = "ok"], in)
                        IN partition' = s.partition /\ open' = s.open /\ error' = s.error
  BY DEF parse_chdir
<1> DEFINE s == do_chdir([System EXCEPT !.error = "ok"], in)
<1>2. TreeRight /\ SoundNow /\ current_part \in Part /\ tree' = tree /\ current_part' = current_part /\ in \in Given
  BY NavigatorAssumption DEF NavigatorInv, PlacesRight, parse_chdir
<1>3. Sound([System EXCEPT !.error = "ok"])
  BY <1>2, SystemSound
<1>4. Sound(s)
  BY <1>2, <1>3, ChdirRight
<1>5. partition' = s.partition /\ open' = s.open /\ error' = s.error
  BY <1>1
<1> HIDE DEF s
<1>6. s.error \in {"ok", "bad"}
  BY <1>4 DEF Sound
<1>7. SoundNow'
  BY <1>2, <1>4, <1>5, <1>6, TakenOver
<1>8. QED BY <1>2, <1>7, SameTree DEF PlacesRight

LEMMA MountStep ==
  ASSUME NavigatorInv, Mount
  PROVE  PlacesRight' /\ current_part' = swappath.part
<1> DEFINE p == swappath.part
           line == Lines[scan.entry]
           cd == line.cd
           s == IF fop(System, p) # None THEN image_unmount(System, p) ELSE System
           to == IF cd.part = 0 THEN [cd EXCEPT !.part = p] ELSE cd
           t == do_chdir(update_current_dir(s, swappath), to)
<1>1. /\ partition' = t.partition /\ open' = t.open /\ current_part' = p
      /\ error' = IF t.error # "ok" THEN scan.olderror ELSE "ok"
      /\ pc = "mount" /\ tree' = tree
  BY Zenon DEF Mount
<1>2. TreeRight /\ SoundNow /\ current_part \in Part /\ scan.olderror \in {"ok", "bad"} /\ swappath \in PathType
  BY DEF NavigatorInv, PlacesRight, ListRight, ScanType
<1>3. p \in Part
  BY <1>2 DEF PathType
<1>4. InDirectory(swappath, swaplist) /\ scan.entry \in Entries(Lines)
  BY <1>1 DEF NavigatorInv, ListRight, Found
<1>5. to \in Given
  <2>1. Lines \in Seq(Line)
    BY <1>4, LinesRight DEF Lines, InDirectory
  <2>2. line \in Line /\ line.kind = "entry"
    BY <1>4, <2>1 DEF Entries
  <2>3. cd \in Given
    BY <2>2 DEF Line
  <2> HIDE DEF cd
  <2>4. p \in Nat
    BY <1>3 DEF Part
  <2>5. [cd EXCEPT !.part = p] \in Given
    BY <2>3, <2>4 DEF Given
  <2>6. QED BY <2>3, <2>5
<1>6. error \in {"ok", "bad"}
  BY <1>2 DEF SoundNow
<1>7. Sound(System)
  BY <1>2, <1>6, SystemSound
<1>8. Sound(s) /\ fop(s, p) = None
  BY <1>3, <1>7, UnmountRight, Zenon
<1> HIDE DEF s, to
<1>9. OnPath(s, swappath)
  BY <1>2, <1>4, <1>8 DEF OnPath, InDirectory, None
<1>10. Sound(update_current_dir(s, swappath))
  BY <1>8, <1>9, Moved
<1>11. Sound(t)
  BY <1>2, <1>5, <1>10, ChdirRight
<1> HIDE DEF t
<1>12. SoundNow'
  BY <1>1, <1>2, <1>11, TakenOver
<1>13. QED BY <1>1, <1>2, <1>3, <1>12, SameTree DEF PlacesRight

LEMMA MakeStep ==
  ASSUME NavigatorInv, parse_mkdir
  PROVE  PlacesRight' /\ \A q \in Part : tree[q] \subseteq tree'[q]
<1>1. PICK in \in Paths, name \in NewNames :
        LET r == parse_path(System, [in EXCEPT !.name = name], FALSE)
            new == Append(r.path.dir, name)
            may == r.ok /\ in.colon /\ fop(System, r.path.part) = None
                   /\ new \notin tree[r.path.part] /\ Len(new) <= Depth
        IN /\ tree' = IF may THEN [tree EXCEPT ![r.path.part] = @ \cup {new}] ELSE tree
           /\ error' = IF may THEN "ok" ELSE "bad"
  BY Zenon DEF parse_mkdir
<1> DEFINE given == [in EXCEPT !.name = name]
           r == parse_path(System, given, FALSE)
           q == r.path.part
           new == Append(r.path.dir, name)
<1>2. TreeRight /\ SoundNow /\ current_part \in Part /\ UNCHANGED <<partition, current_part, open>>
  BY DEF NavigatorInv, PlacesRight, parse_mkdir
<1>3. tree' \in {tree, [tree EXCEPT ![q] = @ \cup {new}]} /\ error' \in {"ok", "bad"}
  BY <1>1
<1>4. name \in Names /\ given \in Given
  <2>1. name \in Names /\ in \in Given
    BY NavigatorAssumption
  <2>2. QED BY <2>1 DEF Given
<1>5. Sound(System)
  BY <1>2, SystemSound
<1> HIDE DEF given
<1>6. OnPath(System, r.path)
  BY <1>2, <1>4, <1>5, PathRight
<1> HIDE DEF r
<1>7. q \in Part /\ r.path.dir \in Seq(Names) /\ r.path.dir \in tree[q] \cup {<<>>}
  BY <1>6 DEF OnPath, PathType, Exists
<1>8. tree \in [Part -> SUBSET Seq(Names)] /\ \A p \in Part : IsTree(tree[p])
  BY <1>2 DEF TreeRight
<1>9. IsTree(tree[q] \cup {new}) /\ new \in Seq(Names)
  BY <1>4, <1>7, <1>8, TreeGrows, FrontOfAppend
<1> HIDE DEF new, q
<1>10. TreeRight' /\ \A p \in Part : tree[p] \subseteq tree'[p]
  <2>1. CASE tree' = tree
    BY <1>8, <2>1 DEF TreeRight
  <2>2. CASE tree' = [tree EXCEPT ![q] = @ \cup {new}]
    <3>1. tree' \in [Part -> SUBSET Seq(Names)]
      BY <1>7, <1>8, <1>9, <2>2
    <3>2. \A p \in Part : tree'[p] = IF p = q THEN tree[q] \cup {new} ELSE tree[p]
      BY <1>8, <2>2
    <3>3. \A p \in Part : IsTree(tree'[p])
      BY <1>8, <1>9, <3>2
    <3>4. QED BY <3>1, <3>2, <3>3 DEF TreeRight
  <2>3. QED BY <1>3, <2>1, <2>2
<1>11. \A p \in Part : Legal(p, partition[p])'
  BY <1>2, <1>10 DEF SoundNow, Legal, Exists
<1>12. QED BY <1>2, <1>3, <1>10, <1>11 DEF PlacesRight, SoundNow

(* RD takes away only a directory that nobody is in, and nothing else is.     *)
LEMMA RemoveStep ==
  ASSUME NavigatorInv, parse_rmdir
  PROVE  /\ PlacesRight'
         /\ \A q \in Part : \A dir : Exists(q, dir) /\ FilesIn(q, dir) # {} => Exists(q, dir)'
<1>1. PICK p \in Part, name \in NewNames :
        LET old == Append(partition[p].dir, name)
            may == fop(System, p) = None /\ old \in tree[p] /\ IsEmpty(p, old)
        IN /\ tree' = IF may THEN [tree EXCEPT ![p] = @ \ {old}] ELSE tree
           /\ error' = IF may THEN "ok" ELSE "bad"
  BY DEF parse_rmdir
<1> DEFINE old == Append(partition[p].dir, name)
           may == fop(System, p) = None /\ old \in tree[p] /\ IsEmpty(p, old)
<1>2. TreeRight /\ SoundNow /\ current_part \in Part /\ UNCHANGED <<partition, current_part, open>>
  BY DEF NavigatorInv, PlacesRight, parse_rmdir
<1>3. error' \in {"ok", "bad"} /\ (may => tree' = [tree EXCEPT ![p] = @ \ {old}]) /\ (~may => tree' = tree)
  BY <1>1
<1>4. /\ partition \in [Part -> PlaceType] /\ \A q \in Part : Legal(q, partition[q])
      /\ tree \in [Part -> SUBSET Seq(Names)] /\ \A q \in Part : IsTree(tree[q])
  BY <1>2 DEF SoundNow, TreeRight
<1>5. CASE ~may
  <2>1. tree' = tree
    BY <1>3, <1>5
  <2>2. PlacesRight
    BY DEF NavigatorInv
  <2>3. PlacesRight'
    BY <1>2, <1>3, <2>1, <2>2, SamePlaces
  <2>4. QED BY <2>1, <2>3 DEF Exists
<1>6. CASE may
  <2>1. partition[p].dir \in Seq(Names) /\ name \in Names
    BY <1>4, NavigatorAssumption DEF PlaceType
  <2>2. old # partition[p].dir
    BY <2>1, FrontOfAppend
  <2>3. FilesIn(p, old) = {} /\ \A e \in tree[p] : e = <<>> \/ Front(e) # old
    BY <1>6 DEF IsEmpty
  <2>4. partition[p].image.dir = <<>>
    <3>1. partition[p].image.kind = None
      BY <1>6 DEF fop, System
    <3>2. partition[p].image = NoImage
      BY <1>4, <3>1 DEF Legal
    <3>3. QED BY <3>2 DEF NoImage
  <2>5. tree' = [tree EXCEPT ![p] = tree[p] \ {old}]
    BY <1>3, <1>6
  <2> HIDE DEF old, may
  <2>6. IsTree(tree[p] \ {old})
    BY <1>4, <2>3, TreeShrinks
  <2>7. \A q \in Part : tree'[q] = IF q = p THEN tree[p] \ {old} ELSE tree[q]
    BY <1>4, <2>5
  <2>8. TreeRight'
    <3>1. tree' \in [Part -> SUBSET Seq(Names)]
      BY <1>4, <2>5
    <3>2. \A q \in Part : IsTree(tree'[q])
      BY <1>4, <2>6, <2>7
    <3>3. QED BY <3>1, <3>2 DEF TreeRight
  <2>9. \A q \in Part : \A dir : dir \in tree[q] \cup {<<>>} /\ (q = p => dir # old) => dir \in tree'[q] \cup {<<>>}
    BY <2>7
  <2>10. \A q \in Part : Legal(q, partition[q])'
    <3> TAKE q \in Part
    <3>1. Legal(q, partition[q]) /\ partition' = partition
      BY <1>2, <1>4
    <3>2. partition[q].dir \in tree[q] \cup {<<>>} /\ partition[q].image.dir \in tree[q] \cup {<<>>}
      BY <3>1 DEF Legal, Exists
    <3>3. partition[q].dir \in tree'[q] \cup {<<>>} /\ partition[q].image.dir \in tree'[q] \cup {<<>>}
      <4>1. CASE q # p
        BY <2>9, <3>2, <4>1
      <4>2. CASE q = p
        <5>1. partition[q].dir \in tree'[q] \cup {<<>>}
          BY <2>2, <2>9, <3>2, <4>2
        <5>2. partition[q].image.dir \in tree'[q] \cup {<<>>}
          BY <2>4, <4>2
        <5>3. QED BY <5>1, <5>2
      <4>3. QED BY <4>1, <4>2
    <3>4. QED BY <3>1, <3>3 DEF Legal, Exists
  <2>11. SoundNow'
    BY <1>2, <1>3, <2>10 DEF SoundNow
  <2>12. \A q \in Part : \A dir : Exists(q, dir) /\ FilesIn(q, dir) # {} => Exists(q, dir)'
    BY <2>3, <2>9 DEF Exists
  <2>13. QED BY <1>2, <2>8, <2>11, <2>12 DEF PlacesRight
<1>7. QED BY <1>5, <1>6

(***************************************************************************)
(* The lists.                                                              *)
(***************************************************************************)
LEMMA ListIsSomewhere ==
  ASSUME NEW path, NEW list, Holds(path, list)
  PROVE  FilesIn(path.part, path.dir) # {}
<1>1. CASE list = Made
  <2>1. \E f \in Files : f.part = path.part /\ f.dir = path.dir
    BY <1>1, ImagesAreFinite DEF Holds
  <2>2. QED BY <2>1 DEF FilesIn
<1>2. CASE list # Made
  <2>1. \E l \in Lists : l.part = path.part /\ l.dir = path.dir
    BY <1>2 DEF Holds, ListAt
  <2>2. QED BY <2>1 DEF FilesIn
<1>3. QED BY <1>1, <1>2

ListUnchanged == UNCHANGED <<swaplist, swappath, linenum, pc, scan, due>>

LEMMA ListKept ==
  ASSUME ListRight, ListUnchanged,
         \A p \in Part : \A dir : Exists(p, dir) /\ FilesIn(p, dir) # {} => Exists(p, dir)'
  PROVE  ListRight'
<1>1. swappath \in PathType /\ swappath.part \in Part /\ UNCHANGED <<swaplist, swappath, linenum, pc, scan, due>>
  BY DEF ListRight, PathType, ListUnchanged
<1>2. Readable' <=> Readable
  BY <1>1 DEF Readable
<1>3. Lines' = Lines
  BY <1>1 DEF Lines
<1>4. InDirectory(swappath, swaplist) => InDirectory(swappath, swaplist)'
  <2> SUFFICES ASSUME InDirectory(swappath, swaplist) PROVE InDirectory(swappath, swaplist)'
    OBVIOUS
  <2>1. FilesIn(swappath.part, swappath.dir) # {} /\ Exists(swappath.part, swappath.dir)
    BY ListIsSomewhere DEF InDirectory
  <2>2. Exists(swappath.part, swappath.dir)'
    BY <1>1, <2>1 DEF Exists
  <2>3. QED BY <1>1, <2>2 DEF InDirectory
<1>5. (Searching' <=> Searching) /\ (Found' <=> Found)
  BY <1>1, <1>3 DEF Searching, Found
<1>6. QED BY <1>1, <1>2, <1>3, <1>4, <1>5 DEF ListRight

LEMMA ListClosed ==
  ASSUME CloseList
  PROVE  ListRight' /\ scan' \in ScanType
<1>1. 1 \in Part /\ <<>> \in Seq(Names)
  BY NavigatorAssumption DEF Part
<1>2. swappath' \in PathType
  BY <1>1 DEF CloseList, NoPath, PathType
<1>3. ~ Readable'
  BY DEF CloseList, Readable
<1>4. scan' \in ScanType
  BY DEF CloseList, NoScan, ScanType
<1>5. QED BY <1>2, <1>3, <1>4 DEF ListRight, CloseList

(* The search begins: with the number of the entry, or one past an end.       *)
LEMMA SearchBegins ==
  ASSUME NEW olderror \in {"ok", "bad"}, MountLine(olderror), swappath' \in PathType,
         Readable' => /\ InDirectory(swappath, swaplist)'
                      /\ linenum' \in Nat /\ due' \in 1 .. Count(Lines')
                      /\ \/ linenum' = due' - 1
                         \/ due' = 1 /\ linenum' = Count(Lines')
                         \/ due' = Count(Lines') /\ linenum' = LastLine
  PROVE  ListRight' /\ scan' \in ScanType
<1>1. /\ scan' = [at |-> 1, effective_line |-> 0, entry |-> 0, olderror |-> olderror, restarts |-> 0]
      /\ pc' = "scan"
  BY DEF MountLine, NoScan
<1>2. scan' \in ScanType /\ scan'.at = 1 /\ scan'.effective_line = 0 /\ scan'.restarts = 0
  BY <1>1 DEF ScanType
<1>3. Readable' => Searching'
  <2> SUFFICES ASSUME Readable' PROVE Searching'
    OBVIOUS
  <2> DEFINE L == Lines'
  <2>1. L \in Seq(Line)
    <3>1. L = LinesOf(swappath', swaplist')
      BY DEF Lines
    <3>2. Holds(swappath', swaplist')
      BY DEF InDirectory
    <3>3. QED BY <3>1, <3>2, LinesRight
  <2>2. Len(L) \in Nat /\ scan'.at \in 1 .. Len(L) + 1
    BY <1>2, <2>1
  <2>3. Cardinality(Upto(L, 0)) = 0
    <3>1. Upto(L, 0) = {}
      BY <2>1, UptoGrows
    <3>2. QED BY <3>1, FS_EmptySet
  <2>4. scan'.at - 1 = 0
    BY <1>2
  <2>5. scan'.effective_line = Cardinality(Upto(L, scan'.at - 1)) /\ scan'.effective_line <= linenum'
    BY <1>2, <2>3, <2>4
  <2> HIDE DEF L
  <2>6. \/ linenum' = due' - 1
        \/ scan'.restarts = 0 /\ due' = 1 /\ linenum' = Count(L)
        \/ scan'.restarts = 0 /\ due' = Count(L) /\ linenum' = LastLine
    BY <1>2 DEF L
  <2>7. QED BY <2>2, <2>5, <2>6 DEF Searching, L
<1>4. QED BY <1>1, <1>2, <1>3 DEF ListRight

LEMMA ReadStep ==
  ASSUME NavigatorInv, ReadLine
  PROVE  NavigatorInv'
<1> DEFINE L == Lines
           entry == L[scan.at].kind = "entry"
           n == IF entry THEN scan.effective_line + 1 ELSE scan.effective_line
<1>1. /\ pc = "scan" /\ Readable /\ scan.at <= Len(L)
      /\ scan' = [scan EXCEPT !.at = @ + 1, !.effective_line = n, !.entry = IF entry THEN scan.at ELSE @]
      /\ pc' = IF n > linenum THEN "mount" ELSE "scan"
      /\ UNCHANGED <<partition, tree, current_part, open, error, swaplist, swappath, linenum, due>>
  BY Zenon DEF ReadLine
<1>2. PlacesRight'
  <2>1. PlacesRight /\ error' \in {"ok", "bad"}
    BY <1>1 DEF NavigatorInv, PlacesRight, SoundNow
  <2>2. QED BY <1>1, <2>1, SamePlaces
<1>3. /\ InDirectory(swappath, swaplist) /\ Holds(swappath, swaplist) /\ Searching /\ due \in 1 .. Count(L)
      /\ swappath \in PathType /\ scan \in ScanType
  BY <1>1 DEF NavigatorInv, ListRight, InDirectory
<1>4. L \in Seq(Line) /\ Len(L) \in Nat /\ Count(L) \in Nat \ {0} /\ Count(L) < LastLine
  BY <1>3, LinesRight DEF Lines
<1>5. Readable' /\ Lines' = L /\ InDirectory(swappath, swaplist)'
  BY <1>1, <1>3 DEF Readable, Lines, InDirectory, Exists
<1> DEFINE at == scan.at
           before == Cardinality(Upto(L, at - 1))
           after == Cardinality(Upto(L, at))
<1>6. at \in Nat /\ at >= 1 /\ at <= Len(L) /\ scan.effective_line = before /\ before <= linenum
  BY <1>1, <1>3, <1>4 DEF Searching
<1>7. \/ linenum = due - 1
      \/ scan.restarts = 0 /\ due = 1 /\ linenum = Count(L)
      \/ scan.restarts = 0 /\ due = Count(L) /\ linenum = LastLine
  BY <1>3 DEF Searching
<1>8. entry <=> at \in Entries(L)
  BY <1>4, <1>6 DEF Entries
<1> HIDE DEF L, entry
<1>9. before \in Nat /\ after \in Nat /\ after <= Count(L) /\ after = n
      /\ (entry => after = before + 1) /\ (~entry => after = before)
  <2>1. at - 1 \in Nat /\ (at - 1) + 1 = at
    BY <1>6
  <2>2. before \in Nat /\ after \in Nat /\ after <= Count(L)
    BY <1>4, <1>6, <2>1, UptoGrows
  <2> DEFINE k == at - 1
  <2>3. k \in Nat /\ k + 1 = at
    BY <2>1
  <2> HIDE DEF k
  <2>4. /\ k + 1 \in Entries(L) => Cardinality(Upto(L, k + 1)) = Cardinality(Upto(L, k)) + 1
        /\ k + 1 \notin Entries(L) => Upto(L, k + 1) = Upto(L, k)
    BY <1>4, <2>3, UptoGrows
  <2>5. (entry => after = before + 1) /\ (~entry => after = before)
    BY <1>8, <2>3, <2>4 DEF k
  <2>6. QED BY <1>6, <2>2, <2>5
<1>10. /\ scan' \in ScanType /\ scan'.at = at + 1 /\ scan'.effective_line = n /\ scan'.restarts = scan.restarts
       /\ (entry => scan'.entry = at)
  <2> HIDE DEF n
  <2>1. n \in Nat /\ at \in Nat
    BY <1>6, <1>9
  <2>2. scan \in [at : Nat, effective_line : Nat, entry : Nat, olderror : {"ok", "bad"}, restarts : {0, 1}]
    BY <1>3 DEF ScanType
  <2> DEFINE place == IF entry THEN at ELSE scan.entry
  <2>3. place \in Nat /\ (entry => place = at)
    BY <2>1, <2>2
  <2>4. scan' = [at |-> at + 1, effective_line |-> n, entry |-> place, olderror |-> scan.olderror, restarts |-> scan.restarts]
    BY <1>1, <2>2
  <2> HIDE DEF place
  <2>5. QED BY <2>1, <2>2, <2>3, <2>4 DEF ScanType
<1>11. linenum \in Nat /\ due \in Nat /\ due >= 1 /\ due <= Count(L)
  BY <1>3, <1>4, <1>7, NavigatorAssumption
<1> HIDE DEF before, after, n, at
<1>12. CASE n > linenum
  <2>1. pc' = "mount"
    BY <1>1, <1>12
  <2>2. entry /\ n = linenum + 1
    BY <1>6, <1>9, <1>11, <1>12
  <2>3. linenum = due - 1
    BY <1>4, <1>7, <1>9, <1>11, <2>2
  <2>4. scan'.entry = at /\ at \in Entries(L) /\ Cardinality(Upto(L, at)) = due
    BY <1>8, <1>9, <1>10, <1>11, <2>2, <2>3 DEF after
  <2>5. Found'
    BY <1>1, <1>5, <2>3, <2>4 DEF Found
  <2>6. ListRight'
    BY <1>1, <1>3, <1>5, <2>1, <2>5 DEF ListRight
  <2>7. QED BY <1>2, <1>10, <2>6 DEF NavigatorInv
<1>13. CASE ~(n > linenum)
  <2>1. pc' = "scan"
    BY <1>1, <1>13
  <2>2. scan'.at \in 1 .. Len(L) + 1 /\ scan'.at - 1 = at
    BY <1>4, <1>6, <1>10
  <2>3. scan'.effective_line = Cardinality(Upto(L, scan'.at - 1)) /\ scan'.effective_line <= linenum'
    BY <1>1, <1>9, <1>10, <1>11, <1>13, <2>2 DEF after
  <2>4. Searching'
    BY <1>1, <1>5, <1>7, <1>10, <2>2, <2>3 DEF Searching
  <2>5. ListRight'
    BY <1>1, <1>3, <1>5, <2>1, <2>4 DEF ListRight
  <2>6. QED BY <1>2, <1>10, <2>5 DEF NavigatorInv
<1>14. QED BY <1>12, <1>13

(* The end of the list is reached only by a search that began with a number   *)
(* past the end: what the number stands for is known now.                    *)
LEMMA EndStep ==
  ASSUME NavigatorInv, EndOfList
  PROVE  NavigatorInv'
<1> DEFINE L == Lines
<1>1. /\ pc = "scan" /\ Readable /\ scan.at > Len(L)
      /\ linenum' = end_of_list(scan.effective_line, linenum)
      /\ scan' = [scan EXCEPT !.at = 1, !.effective_line = 0, !.restarts = @ + 1]
      /\ UNCHANGED <<partition, tree, current_part, open, error, swaplist, swappath, pc, due>>
  BY DEF EndOfList
<1>2. PlacesRight'
  <2>1. PlacesRight /\ error' \in {"ok", "bad"}
    BY <1>1 DEF NavigatorInv, PlacesRight, SoundNow
  <2>2. QED BY <1>1, <2>1, SamePlaces
<1>3. /\ InDirectory(swappath, swaplist) /\ Holds(swappath, swaplist) /\ Searching /\ due \in 1 .. Count(L)
      /\ swappath \in PathType /\ scan \in ScanType
  BY <1>1 DEF NavigatorInv, ListRight, InDirectory
<1>4. L \in Seq(Line) /\ Len(L) \in Nat /\ Count(L) \in Nat \ {0} /\ Count(L) < LastLine
  BY <1>3, LinesRight DEF Lines
<1>5. Readable' /\ Lines' = L /\ InDirectory(swappath, swaplist)'
  BY <1>1, <1>3 DEF Readable, Lines, InDirectory, Exists
<1>6. /\ scan.at \in Nat /\ scan.at - 1 \in Nat /\ scan.at - 1 >= Len(L)
      /\ scan.effective_line = Cardinality(Upto(L, scan.at - 1)) /\ scan.effective_line <= linenum
  BY <1>1, <1>3, <1>4 DEF Searching
<1>7. \/ linenum = due - 1
      \/ scan.restarts = 0 /\ due = 1 /\ linenum = Count(L)
      \/ scan.restarts = 0 /\ due = Count(L) /\ linenum = LastLine
  BY <1>3 DEF Searching
<1>8. scan.effective_line = Count(L)
  BY <1>4, <1>6, UptoGrows DEF Count
<1>9. Cardinality(Upto(L, 0)) = 0
  <2>1. Upto(L, 0) = {}
    BY <1>4, UptoGrows
  <2>2. QED BY <2>1, FS_EmptySet
<1> HIDE DEF L
<1>10. scan.restarts = 0 /\ linenum' = due - 1
  <2>1. linenum # due - 1
    BY <1>3, <1>4, <1>6, <1>8
  <2>2. CASE due = 1 /\ linenum = Count(L) /\ scan.restarts = 0
    BY <1>1, <1>4, <1>8, <2>2 DEF end_of_list
  <2>3. CASE due = Count(L) /\ linenum = LastLine /\ scan.restarts = 0
    BY <1>1, <1>8, <2>3 DEF end_of_list
  <2>4. QED BY <1>7, <2>1, <2>2, <2>3
<1>11. scan' \in ScanType /\ scan'.at = 1 /\ scan'.effective_line = 0
  <2>1. scan \in [at : Nat, effective_line : Nat, entry : Nat, olderror : {"ok", "bad"}, restarts : {0, 1}]
    BY <1>3 DEF ScanType
  <2>2. scan' = [at |-> 1, effective_line |-> 0, entry |-> scan.entry, olderror |-> scan.olderror,
                 restarts |-> scan.restarts + 1]
    BY <1>1, <2>1
  <2>3. scan.restarts + 1 = 1
    BY <1>10
  <2>4. QED BY <2>1, <2>2, <2>3 DEF ScanType
<1>12. scan'.at \in 1 .. Len(L) + 1 /\ scan'.at - 1 = 0
  BY <1>4, <1>11
<1>13. scan'.effective_line <= linenum'
  BY <1>3, <1>4, <1>10, <1>11
<1>14. Searching'
  BY <1>1, <1>5, <1>9, <1>10, <1>11, <1>12, <1>13 DEF Searching
<1>15. ListRight'
  BY <1>1, <1>3, <1>5, <1>14 DEF ListRight
<1>16. QED BY <1>2, <1>11, <1>15 DEF NavigatorInv

LEMMA MountKeeps ==
  ASSUME NavigatorInv, Mount
  PROVE  NavigatorInv'
<1>1. PlacesRight'
  BY MountStep
<1>2. /\ pc = "mount" /\ pc' = "idle" /\ scan' = [NoScan EXCEPT !.entry = scan.entry]
      /\ UNCHANGED <<tree, swaplist, swappath, linenum, due>>
  BY DEF Mount
<1>3. ListRight /\ scan \in ScanType
  BY DEF NavigatorInv
<1>4. Readable /\ InDirectory(swappath, swaplist) /\ due \in 1 .. Count(Lines) /\ Found /\ swappath \in PathType
  BY <1>2, <1>3 DEF ListRight
<1>5. Readable' /\ Lines' = Lines /\ InDirectory(swappath, swaplist)'
  BY <1>2, <1>4 DEF Readable, Lines, InDirectory, Exists
<1>6. scan.entry \in Nat
  BY <1>3 DEF ScanType
<1>7. scan' \in ScanType /\ scan'.entry = scan.entry
  BY <1>2, <1>6 DEF NoScan, ScanType
<1>8. Found'
  BY <1>2, <1>4, <1>5, <1>7 DEF Found
<1>9. ListRight'
  BY <1>2, <1>4, <1>5, <1>8 DEF ListRight
<1>10. QED BY <1>1, <1>7, <1>9 DEF NavigatorInv

LEMMA Turning ==
  ASSUME NEW n \in Nat, NEW d \in 1 .. n
  PROVE  Turned(d + 1, n) = (IF d = n THEN 1 ELSE d + 1) /\ Turned(d - 1, n) = (IF d = 1 THEN n ELSE d - 1)
<1>1. Turned(d + 1, n) = (IF d = n THEN 1 ELSE d + 1)
  <2>1. CASE d = n
    <3>1. n % n = 0
      BY <2>1
    <3>2. QED BY <2>1, <3>1 DEF Turned
  <2>2. CASE d # n
    <3>1. d \in Nat /\ d < n
      BY <2>2
    <3>2. d % n = d
      BY <3>1
    <3>3. QED BY <2>2, <3>2 DEF Turned
  <2>3. QED BY <2>1, <2>2
<1>2. Turned(d - 1, n) = (IF d = 1 THEN n ELSE d - 1)
  <2>1. CASE d = 1
    <3>1. (d - 1) - 1 = -1 /\ n > 0
      BY <2>1
    <3>2. (-1) % n = n - 1
      BY <3>1
    <3>3. QED BY <2>1, <3>1, <3>2 DEF Turned
  <2>2. CASE d # 1
    <3>1. d - 2 \in Nat /\ d - 2 < n /\ (d - 1) - 1 = d - 2
      BY <2>2
    <3>2. (d - 2) % n = d - 2
      BY <3>1
    <3>3. QED BY <2>2, <3>1, <3>2 DEF Turned
  <2>3. QED BY <2>1, <2>2
<1>3. QED BY <1>1, <1>2

LEMMA Wrapping ==
  ASSUME NEW n \in Nat, NEW d \in 1 .. n, NEW l \in Nat, n < l
  PROVE  ((d - 1) + 1) % (l + 1) = d /\ ((d - 1) - 1) % (l + 1) = (IF d = 1 THEN l ELSE d - 2)
<1>1. (d - 1) + 1 = d /\ d \in Nat /\ d < l + 1
  OBVIOUS
<1>2. d % (l + 1) = d
  BY <1>1
<1>3. CASE d = 1
  <2>1. (d - 1) - 1 = -1
    BY <1>3
  <2>2. (-1) % (l + 1) = l
    OBVIOUS
  <2>3. QED BY <1>1, <1>2, <1>3, <2>1, <2>2
<1>4. CASE d # 1
  <2>1. d - 2 \in Nat /\ d - 2 < l + 1 /\ (d - 1) - 1 = d - 2
    BY <1>1, <1>4
  <2>2. (d - 2) % (l + 1) = d - 2
    BY <2>1
  <2>3. QED BY <1>1, <1>2, <1>4, <2>1, <2>2
<1>5. QED BY <1>3, <1>4

(* A key turns the list: the number goes past an end where the turn does.     *)
LEMMA KeyStep ==
  ASSUME NavigatorInv, NEW key \in {"next", "prev", "home"}, Key(key)
  PROVE  NavigatorInv'
<1>1. /\ pc = "idle" /\ swaplist # NoList
      /\ linenum' = CASE key = "next" -> (linenum + 1) % (LastLine + 1)
                      [] key = "prev" -> (linenum - 1) % (LastLine + 1)
                      [] key = "home" -> 0
      /\ due' = IF swaplist = Lost THEN due
                ELSE CASE key = "next" -> Turned(due + 1, Count(Lines))
                       [] key = "prev" -> Turned(due - 1, Count(Lines))
                       [] key = "home" -> 1
      /\ MountLine(error)
      /\ UNCHANGED <<partition, tree, current_part, swaplist, swappath>>
  BY Zenon DEF Key, Count
<1>2. PlacesRight /\ ListRight /\ error \in {"ok", "bad"} /\ open' = {} /\ error' = "ok"
  BY <1>1 DEF NavigatorInv, PlacesRight, SoundNow, MountLine
<1>3. PlacesRight'
  BY <1>1, <1>2, SamePlaces
<1>4. swappath' \in PathType
  BY <1>1, <1>2 DEF ListRight
<1>5. ASSUME Readable'
      PROVE  /\ InDirectory(swappath, swaplist)'
             /\ linenum' \in Nat /\ due' \in 1 .. Count(Lines')
             /\ \/ linenum' = due' - 1
                \/ due' = 1 /\ linenum' = Count(Lines')
                \/ due' = Count(Lines') /\ linenum' = LastLine
  <2>1. Readable /\ swaplist # Lost
    BY <1>1, <1>5 DEF Readable
  <2>2. InDirectory(swappath, swaplist) /\ Holds(swappath, swaplist) /\ due \in 1 .. Count(Lines) /\ linenum = due - 1
    BY <1>1, <1>2, <2>1 DEF ListRight, Found, InDirectory
  <2>3. Lines' = Lines /\ InDirectory(swappath, swaplist)'
    BY <1>1, <2>2 DEF Lines, InDirectory, Exists
  <2> DEFINE n == Count(Lines)
  <2>4. n \in Nat \ {0} /\ n < LastLine /\ LastLine \in Nat
    BY <2>2, LinesRight, NavigatorAssumption DEF Lines
  <2>5. Count(Lines') = n
    BY <2>3
  <2>6. /\ Turned(due + 1, n) = IF due = n THEN 1 ELSE due + 1
        /\ Turned(due - 1, n) = IF due = 1 THEN n ELSE due - 1
        /\ (linenum + 1) % (LastLine + 1) = due
        /\ (linenum - 1) % (LastLine + 1) = IF due = 1 THEN LastLine ELSE due - 2
    <3> HIDE DEF n
    <3>1. due \in 1 .. n
      BY <2>2 DEF n
    <3>2. Turned(due + 1, n) = (IF due = n THEN 1 ELSE due + 1) /\ Turned(due - 1, n) = (IF due = 1 THEN n ELSE due - 1)
      BY <2>4, <3>1, Turning
    <3>3. ((due - 1) + 1) % (LastLine + 1) = due /\ ((due - 1) - 1) % (LastLine + 1) = (IF due = 1 THEN LastLine ELSE due - 2)
      BY <2>4, <3>1, Wrapping
    <3>4. linenum = due - 1
      BY <2>2
    <3>5. QED BY <3>2, <3>3, <3>4
  <2>7. due \in Nat /\ due >= 1 /\ due <= n
    BY <2>2, <2>4
  <2> HIDE DEF n
  <2>8. linenum' \in Nat /\ due' \in Nat /\ due' >= 1 /\ due' <= n
        /\ \/ linenum' = due' - 1
           \/ due' = 1 /\ linenum' = n
           \/ due' = n /\ linenum' = LastLine
    <3>1. CASE key = "next"
      <4>1. linenum' = due
        BY <1>1, <2>6, <3>1
      <4>2. due' = IF due = n THEN 1 ELSE due + 1
        BY <1>1, <2>1, <2>6, <3>1 DEF n
      <4>3. QED BY <2>4, <2>7, <4>1, <4>2
    <3>2. CASE key = "prev"
      <4>1. linenum' = IF due = 1 THEN LastLine ELSE due - 2
        BY <1>1, <2>6, <3>2
      <4>2. due' = IF due = 1 THEN n ELSE due - 1
        BY <1>1, <2>1, <2>6, <3>2 DEF n
      <4>3. QED BY <2>4, <2>7, <4>1, <4>2
    <3>3. CASE key = "home"
      <4>1. linenum' = 0
        BY <1>1, <3>3
      <4>2. due' = 1
        BY <1>1, <2>1, <3>3
      <4>3. QED BY <2>4, <2>7, <4>1, <4>2
    <3>4. QED BY <3>1, <3>2, <3>3
  <2>9. due' \in 1 .. n
    BY <2>4, <2>8
  <2>10. due' \in 1 .. Count(Lines')
    BY <2>5, <2>9
  <2>11. QED BY <2>3, <2>5, <2>8, <2>10
<1>6. ListRight' /\ scan' \in ScanType
  BY <1>1, <1>2, <1>4, <1>5, SearchBegins
<1>7. QED BY <1>3, <1>6 DEF NavigatorInv

(* A list that is there is opened at its first line, or at its last.         *)
LEMMA OpenStep ==
  ASSUME NavigatorInv, NEW path, path \in PathType, NEW list, list \notin {NoList, Lost}, InDirectory(path, list),
         NEW at_end \in BOOLEAN, NEW olderror \in {"ok", "bad"}, OpenList(path, list, at_end, olderror),
         UNCHANGED <<partition, tree, current_part>>
  PROVE  NavigatorInv'
<1>1. /\ swaplist' = list /\ swappath' = path /\ MountLine(olderror)
      /\ linenum' = IF at_end THEN LastLine ELSE 0
      /\ due' = IF at_end THEN Count(LinesOf(path, list)) ELSE 1
  BY Zenon DEF OpenList, Count
<1>2. open' = {} /\ error' = "ok"
  BY <1>1 DEF MountLine
<1>3. PlacesRight
  BY DEF NavigatorInv
<1>4. PlacesRight'
  BY <1>2, <1>3, SamePlaces
<1>5. Holds(path, list) /\ InDirectory(swappath, swaplist)'
  BY <1>1 DEF InDirectory, Exists
<1> DEFINE n == Count(LinesOf(path, list))
<1>6. n \in Nat \ {0} /\ LastLine \in Nat
  BY <1>5, LinesRight, NavigatorAssumption
<1>7. Count(Lines') = n
  BY <1>1 DEF Lines
<1> HIDE DEF n
<1>8. due' \in 1 .. n /\ linenum' \in Nat /\ (linenum' = due' - 1 \/ (due' = n /\ linenum' = LastLine))
  BY <1>1, <1>6 DEF n
<1>9. ListRight' /\ scan' \in ScanType
  BY <1>1, <1>5, <1>7, <1>8, SearchBegins
<1>10. QED BY <1>4, <1>9 DEF NavigatorInv

LEMMA NoImagesNoLines ==
  ASSUME NEW path, ImagesIn(path) # <<>>
  PROVE  ImagesAt(path.part, path.dir) # {}
<1> SUFFICES ASSUME ImagesAt(path.part, path.dir) = {} PROVE FALSE
  OBVIOUS
<1> DEFINE n == SetToSeq(ImagesAt(path.part, path.dir))
           line(i) == [kind |-> "entry", cd |-> [part |-> 0, comps |-> <<>>, colon |-> TRUE, name |-> n[i]]]
<1>1. IsFiniteSet({}) /\ Cardinality({}) = 0
  BY FS_EmptySet
<1>2. n \in [1 .. 0 -> {}]
  BY <1>1, SeqOfSet
<1>3. ImagesIn(path) = [i \in DOMAIN n |-> line(i)]
  BY DEF ImagesIn
<1> HIDE DEF n
<1>4. DOMAIN n = {}
  BY <1>2
<1> HIDE DEF line
<1>5. [i \in {} |-> line(i)] = <<>>
  OBVIOUS
<1>6. QED BY <1>3, <1>4, <1>5

LEMMA FirstKeyStep ==
  ASSUME NavigatorInv, NEW key, FirstKey(key)
  PROVE  NavigatorInv'
<1> DEFINE here == Here(System, current_part)
           auto == ListAt(here, "AUTOSWAP.LST")
<1>1. /\ UNCHANGED <<partition, tree, current_part>>
      /\ \/ auto # {} /\ OpenList(here, "AUTOSWAP.LST", key = "prev", error)
         \/ auto = {} /\ ImagesIn(here) # <<>> /\ OpenList(here, Made, FALSE, "ok")
         \/ error' = "ok" /\ UNCHANGED <<swaplist, swappath, linenum, pc, scan, open, due>>
  BY DEF FirstKey
<1>2. PlacesRight /\ SoundNow /\ current_part \in Part /\ error \in {"ok", "bad"} /\ ListRight /\ scan \in ScanType
  BY DEF NavigatorInv, PlacesRight, SoundNow
<1>3. OnPath(System, here)
  BY <1>2, SystemSound, HereIsPath
<1>4. here \in PathType /\ Exists(here.part, here.dir)
  BY <1>3 DEF OnPath
<1> HIDE DEF here
<1>5. CASE auto # {} /\ OpenList(here, "AUTOSWAP.LST", key = "prev", error)
  <2> DEFINE list == "AUTOSWAP.LST"
             at_end == key = "prev"
  <2>1. list \notin {NoList, Lost} /\ list # Made
    BY DEF NoList, Lost, Made
  <2>2. InDirectory(here, list)
    BY <1>4, <1>5, <2>1 DEF InDirectory, Holds
  <2>3. OpenList(here, list, at_end, error) /\ at_end \in BOOLEAN
    BY <1>5
  <2> HIDE DEF list, at_end
  <2>4. QED BY <1>1, <1>2, <1>4, <2>1, <2>2, <2>3, OpenStep
<1>6. CASE ImagesIn(here) # <<>> /\ OpenList(here, Made, FALSE, "ok")
  <2>1. Made \notin {NoList, Lost}
    BY DEF NoList, Lost, Made
  <2>2. InDirectory(here, Made)
    BY <1>4, <1>6, NoImagesNoLines DEF InDirectory, Holds
  <2>3. QED BY <1>1, <1>4, <1>6, <2>1, <2>2, OpenStep
<1>7. CASE error' = "ok" /\ UNCHANGED <<swaplist, swappath, linenum, pc, scan, open, due>>
  <2>1. PlacesRight'
    BY <1>1, <1>2, <1>7, SamePlaces
  <2>2. ListRight'
    BY <1>1, <1>2, <1>7, ListKept DEF ListUnchanged, Exists
  <2>3. QED BY <1>2, <1>7, <2>1, <2>2 DEF NavigatorInv
<1>8. QED BY <1>1, <1>5, <1>6, <1>7

LEMMA SwaplistStep ==
  ASSUME NavigatorInv, parse_swaplist
  PROVE  NavigatorInv'
<1>1. PICK in \in Paths, name \in {l.name : l \in Lists} \cup {NoName} :
        LET r == parse_path(System, [in EXCEPT !.name = name], FALSE)
        IN IF ~r.ok THEN error' = "bad" /\ UNCHANGED <<swaplist, swappath, linenum, autoswap, pc, scan, open, due>>
           ELSE /\ autoswap' = FALSE
                /\ IF r.name = NoName THEN CloseList /\ error' = "ok" /\ UNCHANGED open
                   ELSE set_changelist(r.path, r.name)
  BY DEF parse_swaplist
<1> DEFINE given == [in EXCEPT !.name = name]
           r == parse_path(System, given, FALSE)
<1>2. \/ error' = "bad" /\ UNCHANGED <<swaplist, swappath, linenum, pc, scan, open, due>>
      \/ CloseList /\ error' \in {"ok", "bad"} /\ UNCHANGED open
      \/ ListAt(r.path, r.name) # {} /\ OpenList(r.path, r.name, FALSE, "ok")
  BY <1>1 DEF set_changelist
<1>3. UNCHANGED <<partition, tree, current_part>>
  BY DEF parse_swaplist
<1>4. PlacesRight /\ SoundNow /\ current_part \in Part /\ ListRight /\ scan \in ScanType
  BY DEF NavigatorInv, PlacesRight
<1>5. given \in Given
  <2>1. name \in Names /\ in \in Given
    BY NavigatorAssumption DEF List
  <2>2. QED BY <2>1 DEF Given
<1> HIDE DEF given
<1>6. OnPath(System, r.path)
  <2>1. Sound(System)
    BY <1>4, SystemSound
  <2>2. QED BY <1>4, <1>5, <2>1, PathRight
<1> HIDE DEF r
<1>7. CASE error' = "bad" /\ UNCHANGED <<swaplist, swappath, linenum, pc, scan, open, due>>
  <2>1. PlacesRight'
    BY <1>3, <1>4, <1>7, SamePlaces
  <2>2. ListRight'
    BY <1>3, <1>4, <1>7, ListKept DEF ListUnchanged, Exists
  <2>3. QED BY <1>4, <1>7, <2>1, <2>2 DEF NavigatorInv
<1>8. CASE CloseList /\ error' \in {"ok", "bad"} /\ UNCHANGED open
  <2>1. PlacesRight'
    BY <1>3, <1>4, <1>8, SamePlaces
  <2>2. QED BY <1>8, <2>1, ListClosed DEF NavigatorInv
<1>9. CASE ListAt(r.path, r.name) # {} /\ OpenList(r.path, r.name, FALSE, "ok")
  <2>1. r.name \notin {NoList, Made, Lost}
    BY <1>9, NavigatorAssumption DEF ListAt
  <2>2. InDirectory(r.path, r.name) /\ r.path \in PathType
    BY <1>6, <1>9, <2>1 DEF OnPath, InDirectory, Holds
  <2>3. QED BY <1>3, <1>9, <2>1, <2>2, OpenStep
<1>10. QED BY <1>2, <1>7, <1>8, <1>9

LEMMA ListAfterCommand ==
  ASSUME NavigatorInv, UNCHANGED tree, CloseList \/ ListUnchanged
  PROVE  ListRight' /\ scan' \in ScanType
<1>1. CASE CloseList
  BY <1>1, ListClosed
<1>2. CASE ListUnchanged
  <2>1. ListRight /\ scan \in ScanType
    BY DEF NavigatorInv
  <2>2. scan' = scan
    BY <1>2 DEF ListUnchanged
  <2>3. ListRight'
    BY <1>2, <2>1, ListKept DEF Exists
  <2>4. QED BY <2>1, <2>2, <2>3
<1>3. QED BY <1>1, <1>2

LEMMA CommandStep ==
  ASSUME NavigatorInv,
         parse_chdir \/ parse_changepart \/ parse_mkdir \/ parse_rmdir \/ file_open \/ file_close
  PROVE  NavigatorInv'
<1>1. PlacesRight /\ SoundNow /\ ListRight /\ scan \in ScanType /\ error \in {"ok", "bad"}
  BY DEF NavigatorInv, PlacesRight, SoundNow
<1>2. CASE parse_chdir
  <2>1. UNCHANGED tree /\ (CloseList \/ ListUnchanged)
    BY <1>2 DEF parse_chdir, EndAutoswap, ListUnchanged
  <2>2. QED BY <1>2, <2>1, ChdirStep, ListAfterCommand DEF NavigatorInv
<1>3. CASE parse_changepart
  <2>1. UNCHANGED <<partition, tree, open>> /\ error' \in {"ok", "bad"} /\ (CloseList \/ ListUnchanged)
        /\ (current_part' = current_part \/ current_part' \in Part)
    <3>1. PICK p \in 1 .. Parts + 1 :
            IF p > Parts
            THEN error' = "bad" /\ UNCHANGED <<current_part, swaplist, swappath, linenum, autoswap, pc, scan, due>>
            ELSE current_part' = p /\ error' = "ok" /\ EndAutoswap
      BY <1>3, Zenon DEF parse_changepart
    <3>2. UNCHANGED <<partition, tree, open>>
      BY <1>3 DEF parse_changepart
    <3>3. EndAutoswap => CloseList \/ ListUnchanged
      BY DEF EndAutoswap, ListUnchanged
    <3>4. CASE p > Parts
      BY <3>1, <3>2, <3>4 DEF ListUnchanged
    <3>5. CASE ~(p > Parts)
      <4>1. p \in Part
        BY <3>5, NavigatorAssumption DEF Part
      <4>2. QED BY <3>1, <3>2, <3>3, <3>5, <4>1
    <3>6. QED BY <3>4, <3>5
  <2>2. TreeRight' /\ current_part' \in Part
    BY <1>1, <2>1, SameTree DEF PlacesRight
  <2>3. \A p \in Part : Legal(p, partition[p])'
    BY <1>1, <2>1 DEF SoundNow, Legal, Exists
  <2>4. PlacesRight'
    BY <1>1, <2>1, <2>2, <2>3 DEF PlacesRight, SoundNow
  <2>5. QED BY <2>1, <2>4, ListAfterCommand DEF NavigatorInv
<1>4. CASE parse_mkdir
  <2>1. PlacesRight' /\ \A q \in Part : tree[q] \subseteq tree'[q]
    BY <1>4, MakeStep
  <2>2. \A p \in Part : \A dir : Exists(p, dir) => Exists(p, dir)'
    BY <2>1 DEF Exists
  <2>3. ListUnchanged
    BY <1>4 DEF parse_mkdir, ListUnchanged
  <2>4. ListRight' /\ scan' = scan
    BY <1>1, <2>2, <2>3, ListKept DEF ListUnchanged
  <2>5. QED BY <1>1, <2>1, <2>4 DEF NavigatorInv
<1>5. CASE parse_rmdir
  <2>1. PlacesRight' /\ \A q \in Part : \A dir : Exists(q, dir) /\ FilesIn(q, dir) # {} => Exists(q, dir)'
    BY <1>5, RemoveStep
  <2>2. ListUnchanged
    BY <1>5 DEF parse_rmdir, ListUnchanged
  <2>3. ListRight' /\ scan' = scan
    BY <1>1, <2>1, <2>2, ListKept DEF ListUnchanged
  <2>4. QED BY <1>1, <2>1, <2>3 DEF NavigatorInv
<1>6. CASE file_open
  <2>1. PICK p \in Part : open' = open \cup {[part |-> p, image |-> partition[p].image, broken |-> FALSE]}
    BY <1>6 DEF file_open
  <2>2. UNCHANGED <<partition, tree, current_part>> /\ ListUnchanged /\ error' = "ok"
    BY <1>6 DEF file_open, ListUnchanged
  <2> DEFINE new == [part |-> p, image |-> partition[p].image, broken |-> FALSE]
  <2>3. new \in OpenType /\ new.image = partition[new.part].image
    BY <1>1 DEF OpenType, SoundNow, PlaceType
  <2>4. open' = open \cup {new}
    BY <2>1
  <2> HIDE DEF new
  <2>5. open' \in SUBSET OpenType /\ \A f \in open' : f.broken \/ f.image = partition'[f.part].image
    BY <1>1, <2>2, <2>3, <2>4 DEF SoundNow
  <2>6. \A q \in Part : Legal(q, partition[q])'
    BY <1>1, <2>2 DEF SoundNow, Legal, Exists
  <2>7. TreeRight'
    BY <1>1, <2>2, SameTree DEF PlacesRight
  <2>8. PlacesRight'
    BY <1>1, <2>2, <2>5, <2>6, <2>7 DEF PlacesRight, SoundNow
  <2>9. QED BY <2>2, <2>8, ListAfterCommand DEF NavigatorInv
<1>7. CASE file_close
  <2>1. UNCHANGED <<partition, tree, current_part>> /\ ListUnchanged /\ error' = error /\ \A f \in open' : f \in open
    BY <1>7 DEF file_close, ListUnchanged
  <2>2. PlacesRight'
    BY <1>1, <2>1, SamePlaces
  <2>3. QED BY <2>1, <2>2, ListAfterCommand DEF NavigatorInv
<1>8. QED BY <1>2, <1>3, <1>4, <1>5, <1>6, <1>7

LEMMA CardStep ==
  ASSUME NavigatorInv, CardChanged \/ CardFailed
  PROVE  NavigatorInv'
<1>1. PlacesRight /\ SoundNow /\ ListRight /\ scan \in ScanType /\ tree' = tree
  BY DEF NavigatorInv, PlacesRight, CardChanged, CardFailed
<1>2. NoImage \in ImageType /\ NoImage.dir = <<>> /\ NoImage.kind = None /\ <<>> \in Seq(Names)
  BY DEF NoImage, ImageType
<1>3. TreeRight'
  BY <1>1, SameTree DEF PlacesRight
<1>4. CASE CardChanged
  <2>1. partition' = [p \in Part |-> NewPartition] /\ current_part' = 1 /\ open' = {} /\ error' = "ok" /\ CloseList
    BY <1>4 DEF CardChanged
  <2>2. NewPartition \in PlaceType /\ NewPartition.dir = <<>> /\ NewPartition.image = NoImage
    BY <1>2 DEF NewPartition, PlaceType
  <2> DEFINE place == NewPartition
  <2> HIDE DEF place
  <2>3. \A p \in Part : partition'[p] = NewPartition
    BY <2>1
  <2>4. \A p \in Part : Legal(p, partition[p])'
    BY <1>2, <2>2, <2>3 DEF Legal, Exists, None
  <2>5. 1 \in Part
    BY NavigatorAssumption DEF Part
  <2>6. PlacesRight'
    BY <1>3, <2>1, <2>2, <2>4, <2>5 DEF PlacesRight, SoundNow
  <2>7. QED BY <2>1, <2>6, ListClosed DEF NavigatorInv
<1>5. CASE CardFailed
  <2>1. /\ partition' = [p \in Part |-> [partition[p] EXCEPT !.image = NoImage]]
        /\ open' = {[f EXCEPT !.broken = TRUE] : f \in open}
        /\ swaplist' \in {NoList, Lost} /\ error' = "ok" /\ pc = "idle"
        /\ UNCHANGED <<current_part, swappath, pc, scan>>
    BY <1>5 DEF CardFailed, Idle
  <2>2. \A p \in Part : /\ partition'[p] \in PlaceType /\ partition'[p].dir = partition[p].dir
                        /\ partition'[p].image = NoImage
    <3> TAKE p \in Part
    <3>1. partition[p] \in PlaceType
      BY <1>1 DEF SoundNow
    <3>2. partition'[p] = [partition[p] EXCEPT !.image = NoImage]
      BY <2>1
    <3> HIDE DEF NoImage
    <3>3. QED BY <1>2, <3>1, <3>2 DEF PlaceType
  <2>3. \A p \in Part : Legal(p, partition[p])'
    BY <1>1, <1>2, <2>2 DEF SoundNow, Legal, Exists, None
  <2>4. open' \in SUBSET OpenType /\ \A f \in open' : f.broken
    <3>1. \A f \in open : [f EXCEPT !.broken = TRUE] \in OpenType /\ [f EXCEPT !.broken = TRUE].broken
      BY <1>1 DEF SoundNow, OpenType
    <3>2. QED BY <2>1, <3>1
  <2>5. partition' \in [Part -> PlaceType]
    BY <2>1, <2>2
  <2>6. SoundNow'
    BY <2>1, <2>3, <2>4, <2>5 DEF SoundNow
  <2>7. PlacesRight'
    BY <1>1, <1>3, <2>1, <2>6 DEF PlacesRight
  <2>8. ListRight'
    BY <1>1, <2>1 DEF ListRight, Readable
  <2>9. QED BY <1>1, <2>1, <2>7, <2>8 DEF NavigatorInv
<1>6. QED BY <1>4, <1>5

LEMMA UnreadableStep ==
  ASSUME NavigatorInv, ListUnreadable
  PROVE  NavigatorInv'
<1>1. /\ swaplist = Lost /\ pc' = "idle" /\ error' = "bad" /\ scan' = NoScan
      /\ UNCHANGED <<partition, tree, current_part, open, swaplist, swappath>>
  BY DEF ListUnreadable
<1>2. PlacesRight /\ ListRight
  BY DEF NavigatorInv
<1>3. PlacesRight'
  BY <1>1, <1>2, SamePlaces
<1>4. ListRight'
  BY <1>1, <1>2 DEF ListRight, Readable
<1>5. scan' \in ScanType
  BY <1>1 DEF NoScan, ScanType
<1>6. QED BY <1>3, <1>4, <1>5 DEF NavigatorInv

LEMMA NavigatorStarts == Init => NavigatorInv
<1> SUFFICES ASSUME Init PROVE NavigatorInv
  OBVIOUS
<1>1. /\ partition = [p \in Part |-> NewPartition] /\ tree = Dirs /\ current_part = 1 /\ open = {} /\ error = "ok"
      /\ swaplist = NoList /\ swappath = NoPath /\ pc = "idle" /\ scan = NoScan
  BY DEF Init
<1>2. 1 \in Part /\ <<>> \in Seq(Names)
  BY NavigatorAssumption DEF Part
<1>3. NewPartition \in PlaceType /\ NewPartition.dir = <<>> /\ NewPartition.image = NoImage
      /\ NoImage.dir = <<>> /\ NoImage.kind = None
  BY <1>2 DEF NewPartition, NoImage, PlaceType, ImageType
<1>4. TreeRight
  <2>1. Dirs \in [Part -> SUBSET Seq(Names)] /\ \A p \in Part : IsTree(Dirs[p])
    BY NavigatorAssumption
  <2>2. QED BY <1>1, <2>1 DEF TreeRight
<1>5. \A p \in Part : partition[p] = NewPartition
  BY <1>1
<1>6. \A p \in Part : Legal(p, partition[p])
  BY <1>3, <1>5 DEF Legal, Exists, None
<1>7. PlacesRight
  BY <1>1, <1>2, <1>3, <1>4, <1>6 DEF PlacesRight, SoundNow
<1>8. swappath \in PathType
  BY <1>1, <1>2 DEF NoPath, PathType
<1>9. ListRight
  BY <1>1, <1>8 DEF ListRight, Readable
<1>10. scan \in ScanType
  BY <1>1 DEF NoScan, ScanType
<1>11. QED BY <1>7, <1>9, <1>10 DEF NavigatorInv

LEMMA NavigatorStays == NavigatorInv /\ UNCHANGED vars => NavigatorInv'
<1> SUFFICES ASSUME NavigatorInv, UNCHANGED vars PROVE NavigatorInv'
  OBVIOUS
<1>1. PlacesRight /\ error' \in {"ok", "bad"} /\ open' = open /\ UNCHANGED <<partition, tree, current_part>>
  BY DEF NavigatorInv, PlacesRight, SoundNow, vars
<1>2. PlacesRight'
  BY <1>1, SamePlaces
<1>3. ListUnchanged
  BY DEF vars, ListUnchanged
<1>4. QED BY <1>1, <1>2, <1>3, ListAfterCommand DEF NavigatorInv

LEMMA NavigatorGoesOn == NavigatorInv /\ [Next]_vars => NavigatorInv'
<1> SUFFICES ASSUME NavigatorInv, Next PROVE NavigatorInv'
  BY NavigatorStays
<1>1. CASE parse_chdir \/ parse_changepart \/ parse_mkdir \/ parse_rmdir \/ file_open \/ file_close
  BY <1>1, CommandStep
<1>2. CASE parse_swaplist
  BY <1>2, SwaplistStep
<1>3. CASE CardChanged \/ CardFailed
  BY <1>3, CardStep
<1>4. CASE \E key \in {"next", "prev", "home"} : FirstKey(key) \/ Key(key)
  BY <1>4, FirstKeyStep, KeyStep
<1>5. CASE Scan
  BY <1>5, ReadStep, EndStep, UnreadableStep, MountKeeps DEF Scan
<1>6. QED BY <1>1, <1>2, <1>3, <1>4, <1>5 DEF Next

THEOREM NavigatorInvariant == Spec => []NavigatorInv
<1>1. QED BY NavigatorStarts, NavigatorGoesOn, PTL DEF Spec

(***************************************************************************)
(* The properties.                                                         *)
(***************************************************************************)
(* No partition is left in a directory that is gone, neither of the card nor  *)
(* of the image in it; and the directory of a swap list is there as long as   *)
(* the list is in use: RD takes away only what nobody is in.                  *)
THEOREM DirectoriesStay == Spec => []DirsExist
<1>1. NavigatorInv => DirsExist
  <2> SUFFICES ASSUME NavigatorInv PROVE DirsExist
    OBVIOUS
  <2>1. \A p \in Part : Legal(p, partition[p])
    BY DEF NavigatorInv, PlacesRight, SoundNow
  <2>2. Readable => Exists(swappath.part, swappath.dir)
    BY DEF NavigatorInv, ListRight, InDirectory
  <2>3. \A p \in Part : fop(System, p) = partition[p].image.kind
    BY DEF fop, System
  <2>4. QED BY <2>1, <2>2, <2>3 DEF DirsExist, Legal, Exists, InImage
<1>2. QED BY <1>1, NavigatorInvariant, PTL

(* No channel stays open on an image that is mounted no more, on whatever     *)
(* path the image came and went: CD, the buttons, a card.                    *)
THEOREM ChannelsFollowImages == Spec => []FilesOfMounted
<1>1. NavigatorInv => FilesOfMounted
  BY DEF NavigatorInv, PlacesRight, SoundNow, FilesOfMounted
<1>2. QED BY <1>1, NavigatorInvariant, PTL

(* However many entries and comments a list has, the buttons mount the entry  *)
(* it is the turn of, and the search begins again at most once.              *)
THEOREM ButtonsGoAround == Spec => []ListedDisk
<1>1. NavigatorInv => ListedDisk
  <2> SUFFICES ASSUME NavigatorInv PROVE ListedDisk
    OBVIOUS
  <2>1. scan.restarts <= 1
    BY DEF NavigatorInv, ScanType
  <2>2. pc = "idle" /\ Readable => Found
    BY DEF NavigatorInv, ListRight
  <2>3. QED BY <2>1, <2>2 DEF ListedDisk, Found, Upto
<1>2. QED BY <1>1, NavigatorInvariant, PTL
=============================================================================
