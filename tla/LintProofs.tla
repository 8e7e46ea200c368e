------------------------------ MODULE LintProofs ------------------------------
(* Proofs about LintRun, for every set of files, texts, configurations and   *)
(* command lines: that a file is judged as if it were alone, and that a run  *)
(* which passes has shown nothing and left out nothing.                      *)
(*                                                                         *)
(* The loops of the program are folds over sequences. What a fold goes       *)
(* through is an induction on the length of the sequence, here once for all  *)
(* folds of the model (Turn, Iterates, Steps); an induction itself is the    *)
(* choice of the smallest number that fails (Smallest, UpTo).                *)
(*                                                                         *)
(* For the second theorem the count of errors must be that of the errors     *)
(* shown, so every list of errors must be a sequence, and therefore all that *)
(* the checks read: the second part types the text, the nesting and the      *)
(* checks of a file, with IsSequence, which asks nothing of the tokens.       *)
EXTENDS LintProperties, FiniteSetTheorems, WellFoundedInduction, TLAPS

-----------------------------------------------------------------------------
(* Numbers.                                                                 *)

\* A set of natural numbers that is not empty has a least one.
LEMMA Smallest ==
    ASSUME NEW T \in SUBSET Nat, T # {}
    PROVE  \E m \in T : \A n \in T : m <= n
<1> DEFINE Less == OpToRel(<, Nat)
<1>1. PICK m \in T : \A n \in T : ~(<<n, m>> \in Less)
  <2> HIDE DEF Less
  <2>1. IsWellFoundedOn(Less, Nat)
      BY NatLessThanWellFounded DEF Less
  <2> QED
      BY <2>1, WFMin
<1>2. ASSUME NEW n \in T PROVE m <= n
  <2>1. n \in Nat /\ m \in Nat
      OBVIOUS
  <2>2. ~(n < m)
      BY <1>1, <2>1 DEF OpToRel
  <2> QED
      BY <2>1, <2>2
<1> QED
    BY <1>2

\* Induction up to n, said of a set of numbers: no theorem of the library that
\* takes a formula as a parameter is needed.
LEMMA UpTo ==
    ASSUME NEW n \in Nat, NEW T, 0 \in T, \A k \in 1..n : k - 1 \in T => k \in T
    PROVE  \A k \in 0..n : k \in T
<1> DEFINE Missing == {k \in 0..n : k \notin T}
<1> SUFFICES ASSUME Missing # {} PROVE FALSE
    OBVIOUS
<1>1. PICK m \in Missing : \A k \in Missing : m <= k
  <2>1. Missing \in SUBSET Nat
      OBVIOUS
  <2> HIDE DEF Missing
  <2> QED
      BY <2>1, Smallest
<1>2. m \notin T /\ m \in 0..n /\ m # 0
    OBVIOUS
<1>3. m \in 1..n /\ m - 1 \in 0..n /\ ~(m <= m - 1)
    BY <1>2
<1>4. m - 1 \in T
    BY <1>1, <1>3
<1> QED
    BY <1>2, <1>3, <1>4

\* The greatest of a set of numbers up to k, and the set without it.
LEMMA TopOfInterval ==
    ASSUME NEW k \in Nat \ {0}, NEW x \in SUBSET (1..k)
    PROVE  /\ k \in x => Max(x) = k
           /\ k \notin x => x \in SUBSET (1..k - 1)
           /\ x \ {k} \in SUBSET (1..k - 1)
<1>1. ASSUME k \in x PROVE Max(x) = k
  <2>1. \A y \in x : y \in Int /\ k >= y
      OBVIOUS
  <2>2. ASSUME NEW z \in x, \A y \in x : z >= y PROVE z = k
      BY <1>1, <2>1, <2>2
  <2> QED
      BY <1>1, <2>1, <2>2 DEF Max
<1>2. \A y \in 1..k : y # k => y \in 1..k - 1
    OBVIOUS
<1> QED
    BY <1>1, <1>2

\* Max of numbers up to n is one of them.
LEMMA MaxIn ==
    ASSUME NEW n \in Nat
    PROVE  \A x \in SUBSET (1..n) : x # {} => Max(x) \in x
<1> DEFINE T == {k \in Nat : \A x \in SUBSET (1..k) : x # {} => Max(x) \in x}
<1>1. 0 \in T
  <2>1. \A y : y \notin 1..0
      OBVIOUS
  <2> QED
      BY <2>1
<1>2. ASSUME NEW k \in 1..n, k - 1 \in T PROVE k \in T
  <2>1. ASSUME NEW x \in SUBSET (1..k), x # {} PROVE Max(x) \in x
    <3>1. CASE k \in x
        BY <3>1, TopOfInterval
    <3>2. CASE k \notin x
        BY <1>2, <2>1, <3>2, TopOfInterval
    <3> QED
        BY <3>1, <3>2
  <2> QED
      BY <2>1
<1> HIDE DEF T
<1>3. \A k \in 0..n : k \in T
    BY <1>1, <1>2, UpTo
<1> QED
    BY <1>3 DEF T

-----------------------------------------------------------------------------
(* The folds of the model. What a fold is made of is one case of Turn, so    *)
(* that what a fold does from step to step need be proved only once.         *)

\* The step of Without, for one name.
Kept(kept, name, out) == IF name \in out THEN kept ELSE Append(kept, name)

\* The step of ProcessConfigOverrides, for the directory i levels up.
ConfigAt(acc, i, tree, path) == ConfigOf(acc, tree, SubSeq(path, 1, Len(path) - i), path[Len(path) - i + 1])

\* The step of a fold with a parameter, by the name of the fold.
Turn(of, par, acc, e) ==
    CASE of = "setting" -> Set(acc, e)
      [] of = "entry" -> ConfigLine(acc, e, par.dir, par.base)
      [] of = "configuration" -> ConfigAt(acc, e, par.tree, par.path)
      [] of = "line" -> ProcessedLine(acc, par)
      [] of = "name" -> Kept(acc, e, par)
      [] of = "error" -> Error(acc, par, e)
      [] of = "comment" -> BlankedUpTo(acc, par, e)
      [] of = "raw" -> CutRawString(acc)
      [] of = "cleansed" -> CleansedUpTo(acc, e)
      [] of = "c" -> CutCComment(acc)
      [] of = "string" -> EmptyString(acc)
      [] of = "namespace" -> NextNamespace(acc)
      [] of = "brace" -> ConsumeBrace(acc, e, par.line, par.clean, par.n)
      [] of = "block" -> WithIncomplete(acc, e)

\* The folds, from any start.
SettingsMade(o, lines) == FoldLeft(Set, o, lines)
ConfigLines(acc, lines, dir, base) == FoldLeft(LAMBDA a, line : ConfigLine(a, line, dir, base), acc, lines)
ConfigsAt(acc, tree, path, is) == FoldLeft(LAMBDA a, i : ConfigAt(a, i, tree, path), acc, is)
Blanked(acc, lines, is) == FoldLeft(LAMBDA a, i : BlankedUpTo(a, lines, i), acc, is)
RawCut(acc, line) == FoldLeft(LAMBDA s, t : CutRawString(s), acc, line)
Cleansed(acc, lines) == FoldLeft(CleansedUpTo, acc, lines)
CCommentsCut(acc, line) == FoldLeft(LAMBDA s, t : CutCComment(s), acc, line)
StringsEmptied(acc, line) == FoldLeft(LAMBDA s, t : EmptyString(s), acc, line)
NamespacesRead(acc, line) == FoldLeft(LAMBDA s, t : NextNamespace(s), acc, line)
BracesConsumed(acc, is, line, clean, n) == FoldLeft(LAMBDA a, i : ConsumeBrace(a, i, line, clean, n), acc, is)
Completed(errors, stack) == FoldLeft(WithIncomplete, errors, stack)

\* What the fold of a step is made of: a function from the sets of positions to
\* what the fold gives for them.
Solves(g, of, par, b, s) ==
    g = [x \in SUBSET (DOMAIN s) |-> IF x = {} THEN b ELSE Turn(of, par, g[x \ {Max(x)}], s[Max(x)])]

\* Such a function exists for every finite sequence, so CHOOSE finds it.
LEMMA Iterates ==
    ASSUME NEW of, NEW par, NEW b, NEW X, NEW s \in Seq(X)
    PROVE  \E g : Solves(g, of, par, b, s)
<1> DEFINE n == Len(s)
           Eq(g, k) == g = [x \in SUBSET (1..k) |->
                          IF x = {} THEN b ELSE Turn(of, par, g[x \ {Max(x)}], s[Max(x)])]
           T == {k \in Nat : \E g : Eq(g, k)}
<1>0. n \in Nat /\ n \in 0..n /\ DOMAIN s = 1..n
    OBVIOUS
<1>1. 0 \in T
  <2>1. Eq([x \in SUBSET (1..0) |-> b], 0)
      OBVIOUS
  <2> QED
      BY <2>1
<1>2. ASSUME NEW k \in 1..n, k - 1 \in T PROVE k \in T
  <2>1. PICK g : Eq(g, k - 1)
      BY <1>2
  <2> DEFINE h == [x \in SUBSET (1..k) |->
                      IF k \in x THEN Turn(of, par, g[x \ {k}], s[k]) ELSE g[x]]
  <2>2. ASSUME NEW x \in SUBSET (1..k), x # {}
        PROVE  h[x] = Turn(of, par, h[x \ {Max(x)}], s[Max(x)])
    <3>1. CASE k \in x
      <4>1. Max(x) = k /\ x \ {k} \in SUBSET (1..k - 1) /\ x \ {k} \in SUBSET (1..k)
          BY <3>1, TopOfInterval
      <4>2. h[x] = Turn(of, par, g[x \ {k}], s[k]) /\ h[x \ {k}] = g[x \ {k}]
          BY <3>1, <4>1
      <4> QED
          BY <4>1, <4>2
    <3>2. CASE k \notin x
      <4>1. x \in SUBSET (1..k - 1)
          BY <3>2, TopOfInterval
      <4>x. x \ {Max(x)} \in SUBSET (1..k - 1) /\ x \ {Max(x)} \in SUBSET (1..k)
          BY <4>1
      <4>2. h[x] = g[x] /\ h[x \ {Max(x)}] = g[x \ {Max(x)}]
          BY <3>2, <4>1, <4>x
      <4>3. g[x] = Turn(of, par, g[x \ {Max(x)}], s[Max(x)])
          BY <2>1, <2>2, <4>1
      <4> QED
          BY <4>2, <4>3
    <3> QED
        BY <3>1, <3>2
  <2>3. h[{}] = b
      BY <2>1
  <2> HIDE DEF h
  <2>4. h = [x \in SUBSET (1..k) |-> h[x]]
      BY DEF h
  <2>5. Eq(h, k)
      BY <2>2, <2>3, <2>4
  <2>6. k \in Nat
      BY <1>0
  <2> HIDE DEF Eq
  <2> QED
      BY <2>5, <2>6
<1> HIDE DEF n, T
<1>3. \A k \in 0..n : k \in T
    BY <1>0, <1>1, <1>2, UpTo
<1>4. \E g : Eq(g, n)
    BY <1>0, <1>3 DEF T
<1> QED
    BY <1>0, <1>4 DEF Solves

\* A fold goes through a chain of values.
LEMMA Steps ==
    ASSUME NEW g, NEW of, NEW par, NEW b, NEW X, NEW s \in Seq(X), Solves(g, of, par, b, s)
    PROVE  \E h : /\ h[0] = b /\ h[Len(s)] = g[DOMAIN s]
                  /\ \A k \in 1..Len(s) : h[k] = Turn(of, par, h[k - 1], s[k])
<1> DEFINE n == Len(s)
           h == [k \in 0..n |-> g[1..k]]
<1>0. n \in Nat /\ DOMAIN s = 1..n
    OBVIOUS
<1> HIDE DEF n
<1>1. h[0] = b
  <2>1. 1..0 = {} /\ 0 \in 0..n
      BY <1>0
  <2> QED
      BY <1>0, <2>1 DEF Solves
<1>2. ASSUME NEW k \in 1..n PROVE h[k] = Turn(of, par, h[k - 1], s[k])
  <2>1. Max(1..k) = k
      BY <1>0, TopOfInterval
  <2>2. (1..k) \ {k} = 1..k - 1
      BY <1>0
  <2>3. k \in 0..n /\ k - 1 \in 0..n
      BY <1>0
  <2>4. h[k] = g[1..k] /\ h[k - 1] = g[1..k - 1]
      BY <2>3
  <2>5. 1..k \in SUBSET (1..n) /\ k \in 1..k
      BY <1>0
  <2>6. g[1..k] = Turn(of, par, g[(1..k) \ {Max(1..k)}], s[Max(1..k)])
      BY <1>0, <2>5 DEF Solves
  <2>7. g[1..k] = Turn(of, par, g[1..k - 1], s[k])
      BY <2>1, <2>2, <2>6
  <2> QED
      BY <2>4, <2>7
<1>3. h[n] = g[1..n]
    BY <1>0
<1> HIDE DEF h
<1> QED
    BY <1>0, <1>1, <1>2, <1>3 DEF n

\* The same for each fold of the model: from its start it goes to what it gives,
\* element by element.
LEMMA SettingsMadeSteps ==
    ASSUME NEW b, NEW X, NEW s \in Seq(X)
    PROVE  \E h : /\ h[0] = b /\ h[Len(s)] = SettingsMade(b, s)
                  /\ \A k \in 1..Len(s) : h[k] = Set(h[k - 1], s[k])
<1> DEFINE Eq(g) == g = [x \in SUBSET (DOMAIN s) |->
                            IF x = {} THEN b ELSE Set(g[x \ {Max(x)}], s[Max(x)])]
           g == CHOOSE g : Eq(g)
<1>1. SettingsMade(b, s) = g[DOMAIN s]
    BY DEF SettingsMade, FoldLeft, MapThenFoldSet
<1>2. \A y, e : Turn("setting", 0, y, e) = Set(y, e)
    BY SMT DEF Turn
<1>3. \A f : Eq(f) <=> Solves(f, "setting", 0, b, s)
    BY <1>2 DEF Solves
<1>4. Eq(g)
    BY <1>3, Iterates
<1> HIDE DEF g, Eq
<1> QED
    BY <1>1, <1>2, <1>3, <1>4, Steps

LEMMA ConfigLinesSteps ==
    ASSUME NEW dir, NEW base, NEW b, NEW X, NEW s \in Seq(X)
    PROVE  \E h : /\ h[0] = b /\ h[Len(s)] = ConfigLines(b, s, dir, base)
                  /\ \A k \in 1..Len(s) : h[k] = ConfigLine(h[k - 1], s[k], dir, base)
<1> DEFINE Eq(g) == g = [x \in SUBSET (DOMAIN s) |->
                            IF x = {} THEN b ELSE ConfigLine(g[x \ {Max(x)}], s[Max(x)], dir, base)]
           g == CHOOSE g : Eq(g)
<1>0. PICK par : par = [dir |-> dir, base |-> base]
    OBVIOUS
<1>1. ConfigLines(b, s, dir, base) = g[DOMAIN s]
    BY DEF ConfigLines, FoldLeft, MapThenFoldSet
<1>2. \A y, e : Turn("entry", par, y, e) = ConfigLine(y, e, dir, base)
    BY <1>0, SMT DEF Turn
<1>3. \A f : Eq(f) <=> Solves(f, "entry", par, b, s)
    BY <1>2 DEF Solves
<1>4. Eq(g)
    BY <1>3, Iterates
<1> HIDE DEF g, Eq
<1> QED
    BY <1>1, <1>2, <1>3, <1>4, Steps

LEMMA ConfigsAtSteps ==
    ASSUME NEW tree, NEW path, NEW b, NEW X, NEW s \in Seq(X)
    PROVE  \E h : /\ h[0] = b /\ h[Len(s)] = ConfigsAt(b, tree, path, s)
                  /\ \A k \in 1..Len(s) : h[k] = ConfigAt(h[k - 1], s[k], tree, path)
<1> DEFINE Eq(g) == g = [x \in SUBSET (DOMAIN s) |->
                            IF x = {} THEN b ELSE ConfigAt(g[x \ {Max(x)}], s[Max(x)], tree, path)]
           g == CHOOSE g : Eq(g)
<1>0. PICK par : par = [tree |-> tree, path |-> path]
    OBVIOUS
<1>1. ConfigsAt(b, tree, path, s) = g[DOMAIN s]
    BY DEF ConfigsAt, FoldLeft, MapThenFoldSet
<1>2. \A y, e : Turn("configuration", par, y, e) = ConfigAt(y, e, tree, path)
    BY <1>0, SMT DEF Turn
<1>3. \A f : Eq(f) <=> Solves(f, "configuration", par, b, s)
    BY <1>2 DEF Solves
<1>4. Eq(g)
    BY <1>3, Iterates
<1> HIDE DEF g, Eq
<1> QED
    BY <1>1, <1>2, <1>3, <1>4, Steps

LEMMA ProcessedLinesSteps ==
    ASSUME NEW o, NEW b, NEW X, NEW s \in Seq(X)
    PROVE  \E h : /\ h[0] = b /\ h[Len(s)] = ProcessedLines(b, o, s)
                  /\ \A k \in 1..Len(s) : h[k] = ProcessedLine(h[k - 1], o)
<1> DEFINE Eq(g) == g = [x \in SUBSET (DOMAIN s) |->
                            IF x = {} THEN b ELSE ProcessedLine(g[x \ {Max(x)}], o)]
           g == CHOOSE g : Eq(g)
<1>1. ProcessedLines(b, o, s) = g[DOMAIN s]
    BY DEF ProcessedLines, FoldLeft, MapThenFoldSet
<1>2. \A y, e : Turn("line", o, y, e) = ProcessedLine(y, o)
    BY SMT DEF Turn
<1>3. \A f : Eq(f) <=> Solves(f, "line", o, b, s)
    BY <1>2 DEF Solves
<1>4. Eq(g)
    BY <1>3, Iterates
<1> HIDE DEF g, Eq
<1> QED
    BY <1>1, <1>2, <1>3, <1>4, Steps

LEMMA WithoutSteps ==
    ASSUME NEW out, NEW X, NEW s \in Seq(X)
    PROVE  \E h : /\ h[0] = <<>> /\ h[Len(s)] = Without(s, out)
                  /\ \A k \in 1..Len(s) : h[k] = Kept(h[k - 1], s[k], out)
<1> DEFINE Eq(g) == g = [x \in SUBSET (DOMAIN s) |->
                            IF x = {} THEN <<>> ELSE Kept(g[x \ {Max(x)}], s[Max(x)], out)]
           g == CHOOSE g : Eq(g)
<1>1. Without(s, out) = g[DOMAIN s]
    BY DEF Without, Kept, FoldLeft, MapThenFoldSet
<1>2. \A y, e : Turn("name", out, y, e) = Kept(y, e, out)
    BY SMT DEF Turn
<1>3. \A f : Eq(f) <=> Solves(f, "name", out, <<>>, s)
    BY <1>2 DEF Solves
<1>4. Eq(g)
    BY <1>3, Iterates
<1> HIDE DEF g, Eq
<1> QED
    BY <1>1, <1>2, <1>3, <1>4, Steps

LEMMA ErrorsSteps ==
    ASSUME NEW o, NEW b, NEW X, NEW s \in Seq(X)
    PROVE  \E h : /\ h[0] = b /\ h[Len(s)] = Errors(b, o, s)
                  /\ \A k \in 1..Len(s) : h[k] = Error(h[k - 1], o, s[k])
<1> DEFINE Eq(g) == g = [x \in SUBSET (DOMAIN s) |->
                            IF x = {} THEN b ELSE Error(g[x \ {Max(x)}], o, s[Max(x)])]
           g == CHOOSE g : Eq(g)
<1>1. Errors(b, o, s) = g[DOMAIN s]
    BY DEF Errors, FoldLeft, MapThenFoldSet
<1>2. \A y, e : Turn("error", o, y, e) = Error(y, o, e)
    BY SMT DEF Turn
<1>3. \A f : Eq(f) <=> Solves(f, "error", o, b, s)
    BY <1>2 DEF Solves
<1>4. Eq(g)
    BY <1>3, Iterates
<1> HIDE DEF g, Eq
<1> QED
    BY <1>1, <1>2, <1>3, <1>4, Steps

LEMMA BlankedSteps ==
    ASSUME NEW lines, NEW b, NEW X, NEW s \in Seq(X)
    PROVE  \E h : /\ h[0] = b /\ h[Len(s)] = Blanked(b, lines, s)
                  /\ \A k \in 1..Len(s) : h[k] = BlankedUpTo(h[k - 1], lines, s[k])
<1> DEFINE Eq(g) == g = [x \in SUBSET (DOMAIN s) |->
                            IF x = {} THEN b ELSE BlankedUpTo(g[x \ {Max(x)}], lines, s[Max(x)])]
           g == CHOOSE g : Eq(g)
<1>1. Blanked(b, lines, s) = g[DOMAIN s]
    BY DEF Blanked, FoldLeft, MapThenFoldSet
<1>2. \A y, e : Turn("comment", lines, y, e) = BlankedUpTo(y, lines, e)
    BY SMT DEF Turn
<1>3. \A f : Eq(f) <=> Solves(f, "comment", lines, b, s)
    BY <1>2 DEF Solves
<1>4. Eq(g)
    BY <1>3, Iterates
<1> HIDE DEF g, Eq
<1> QED
    BY <1>1, <1>2, <1>3, <1>4, Steps

LEMMA RawCutSteps ==
    ASSUME NEW b, NEW X, NEW s \in Seq(X)
    PROVE  \E h : /\ h[0] = b /\ h[Len(s)] = RawCut(b, s)
                  /\ \A k \in 1..Len(s) : h[k] = CutRawString(h[k - 1])
<1> DEFINE Eq(g) == g = [x \in SUBSET (DOMAIN s) |->
                            IF x = {} THEN b ELSE CutRawString(g[x \ {Max(x)}])]
           g == CHOOSE g : Eq(g)
<1>1. RawCut(b, s) = g[DOMAIN s]
    BY DEF RawCut, FoldLeft, MapThenFoldSet
<1>2. \A y, e : Turn("raw", 0, y, e) = CutRawString(y)
    BY SMT DEF Turn
<1>3. \A f : Eq(f) <=> Solves(f, "raw", 0, b, s)
    BY <1>2 DEF Solves
<1>4. Eq(g)
    BY <1>3, Iterates
<1> HIDE DEF g, Eq
<1> QED
    BY <1>1, <1>2, <1>3, <1>4, Steps

LEMMA CleansedSteps ==
    ASSUME NEW b, NEW X, NEW s \in Seq(X)
    PROVE  \E h : /\ h[0] = b /\ h[Len(s)] = Cleansed(b, s)
                  /\ \A k \in 1..Len(s) : h[k] = CleansedUpTo(h[k - 1], s[k])
<1> DEFINE Eq(g) == g = [x \in SUBSET (DOMAIN s) |->
                            IF x = {} THEN b ELSE CleansedUpTo(g[x \ {Max(x)}], s[Max(x)])]
           g == CHOOSE g : Eq(g)
<1>1. Cleansed(b, s) = g[DOMAIN s]
    BY DEF Cleansed, FoldLeft, MapThenFoldSet
<1>2. \A y, e : Turn("cleansed", 0, y, e) = CleansedUpTo(y, e)
    BY SMT DEF Turn
<1>3. \A f : Eq(f) <=> Solves(f, "cleansed", 0, b, s)
    BY <1>2 DEF Solves
<1>4. Eq(g)
    BY <1>3, Iterates
<1> HIDE DEF g, Eq
<1> QED
    BY <1>1, <1>2, <1>3, <1>4, Steps

LEMMA CCommentsCutSteps ==
    ASSUME NEW b, NEW X, NEW s \in Seq(X)
    PROVE  \E h : /\ h[0] = b /\ h[Len(s)] = CCommentsCut(b, s)
                  /\ \A k \in 1..Len(s) : h[k] = CutCComment(h[k - 1])
<1> DEFINE Eq(g) == g = [x \in SUBSET (DOMAIN s) |->
                            IF x = {} THEN b ELSE CutCComment(g[x \ {Max(x)}])]
           g == CHOOSE g : Eq(g)
<1>1. CCommentsCut(b, s) = g[DOMAIN s]
    BY DEF CCommentsCut, FoldLeft, MapThenFoldSet
<1>2. \A y, e : Turn("c", 0, y, e) = CutCComment(y)
    BY SMT DEF Turn
<1>3. \A f : Eq(f) <=> Solves(f, "c", 0, b, s)
    BY <1>2 DEF Solves
<1>4. Eq(g)
    BY <1>3, Iterates
<1> HIDE DEF g, Eq
<1> QED
    BY <1>1, <1>2, <1>3, <1>4, Steps

LEMMA StringsEmptiedSteps ==
    ASSUME NEW b, NEW X, NEW s \in Seq(X)
    PROVE  \E h : /\ h[0] = b /\ h[Len(s)] = StringsEmptied(b, s)
                  /\ \A k \in 1..Len(s) : h[k] = EmptyString(h[k - 1])
<1> DEFINE Eq(g) == g = [x \in SUBSET (DOMAIN s) |->
                            IF x = {} THEN b ELSE EmptyString(g[x \ {Max(x)}])]
           g == CHOOSE g : Eq(g)
<1>1. StringsEmptied(b, s) = g[DOMAIN s]
    BY DEF StringsEmptied, FoldLeft, MapThenFoldSet
<1>2. \A y, e : Turn("string", 0, y, e) = EmptyString(y)
    BY SMT DEF Turn
<1>3. \A f : Eq(f) <=> Solves(f, "string", 0, b, s)
    BY <1>2 DEF Solves
<1>4. Eq(g)
    BY <1>3, Iterates
<1> HIDE DEF g, Eq
<1> QED
    BY <1>1, <1>2, <1>3, <1>4, Steps

LEMMA NamespacesReadSteps ==
    ASSUME NEW b, NEW X, NEW s \in Seq(X)
    PROVE  \E h : /\ h[0] = b /\ h[Len(s)] = NamespacesRead(b, s)
                  /\ \A k \in 1..Len(s) : h[k] = NextNamespace(h[k - 1])
<1> DEFINE Eq(g) == g = [x \in SUBSET (DOMAIN s) |->
                            IF x = {} THEN b ELSE NextNamespace(g[x \ {Max(x)}])]
           g == CHOOSE g : Eq(g)
<1>1. NamespacesRead(b, s) = g[DOMAIN s]
    BY DEF NamespacesRead, FoldLeft, MapThenFoldSet
<1>2. \A y, e : Turn("namespace", 0, y, e) = NextNamespace(y)
    BY SMT DEF Turn
<1>3. \A f : Eq(f) <=> Solves(f, "namespace", 0, b, s)
    BY <1>2 DEF Solves
<1>4. Eq(g)
    BY <1>3, Iterates
<1> HIDE DEF g, Eq
<1> QED
    BY <1>1, <1>2, <1>3, <1>4, Steps

LEMMA BracesConsumedSteps ==
    ASSUME NEW line, NEW clean, NEW n, NEW b, NEW X, NEW s \in Seq(X)
    PROVE  \E h : /\ h[0] = b /\ h[Len(s)] = BracesConsumed(b, s, line, clean, n)
                  /\ \A k \in 1..Len(s) : h[k] = ConsumeBrace(h[k - 1], s[k], line, clean, n)
<1> DEFINE Eq(g) == g = [x \in SUBSET (DOMAIN s) |->
                            IF x = {} THEN b ELSE ConsumeBrace(g[x \ {Max(x)}], s[Max(x)], line, clean, n)]
           g == CHOOSE g : Eq(g)
<1>0. PICK par : par = [line |-> line, clean |-> clean, n |-> n]
    OBVIOUS
<1>1. BracesConsumed(b, s, line, clean, n) = g[DOMAIN s]
    BY DEF BracesConsumed, FoldLeft, MapThenFoldSet
<1>2. \A y, e : Turn("brace", par, y, e) = ConsumeBrace(y, e, line, clean, n)
    BY <1>0, SMT DEF Turn
<1>3. \A f : Eq(f) <=> Solves(f, "brace", par, b, s)
    BY <1>2 DEF Solves
<1>4. Eq(g)
    BY <1>3, Iterates
<1> HIDE DEF g, Eq
<1> QED
    BY <1>1, <1>2, <1>3, <1>4, Steps

LEMMA CompletedSteps ==
    ASSUME NEW b, NEW X, NEW s \in Seq(X)
    PROVE  \E h : /\ h[0] = b /\ h[Len(s)] = Completed(b, s)
                  /\ \A k \in 1..Len(s) : h[k] = WithIncomplete(h[k - 1], s[k])
<1> DEFINE Eq(g) == g = [x \in SUBSET (DOMAIN s) |->
                            IF x = {} THEN b ELSE WithIncomplete(g[x \ {Max(x)}], s[Max(x)])]
           g == CHOOSE g : Eq(g)
<1>1. Completed(b, s) = g[DOMAIN s]
    BY DEF Completed, FoldLeft, MapThenFoldSet
<1>2. \A y, e : Turn("block", 0, y, e) = WithIncomplete(y, e)
    BY SMT DEF Turn
<1>3. \A f : Eq(f) <=> Solves(f, "block", 0, b, s)
    BY <1>2 DEF Solves
<1>4. Eq(g)
    BY <1>3, Iterates
<1> HIDE DEF g, Eq
<1> QED
    BY <1>1, <1>2, <1>3, <1>4, Steps

-----------------------------------------------------------------------------
(* The settings of a file.                                                  *)

\* The globals that hold settings.
IsOptions(o) ==
    o = [filters |-> o.filters, filters_backup |-> o.filters_backup, verbose_level |-> o.verbose_level,
         line_length |-> o.line_length, valid_extensions |-> o.valid_extensions,
         hpp_headers |-> o.hpp_headers, root |-> o.root]

\* An option changes one setting and adds none.
LEMMA OptionsStay ==
    ASSUME NEW o, IsOptions(o), NEW line
    PROVE  IsOptions(Set(o, line))
<1>1. CASE line.name = "linelength"
    BY <1>1 DEF Set, IsOptions
<1>2. CASE line.name = "extensions"
    BY <1>2 DEF Set, IsOptions
<1>3. CASE line.name = "headers"
    BY <1>3 DEF Set, IsOptions
<1>4. CASE line.name = "root"
    BY <1>4 DEF Set, IsOptions
<1>5. CASE line.name = "verbose"
    BY <1>5 DEF Set, IsOptions
<1>6. CASE line.name \notin {"linelength", "extensions", "headers", "root", "verbose"}
    BY <1>6 DEF Set
<1> QED
    BY <1>1, <1>2, <1>3, <1>4, <1>5, <1>6

\* So do all options of a command line.
LEMMA SettingsAreOptions ==
    ASSUME NEW X, NEW s \in Seq(X), NEW o, IsOptions(o)
    PROVE  IsOptions(SettingsMade(o, s))
<1>1. PICK h : /\ h[0] = o /\ h[Len(s)] = SettingsMade(o, s)
               /\ \A k \in 1..Len(s) : h[k] = Set(h[k - 1], s[k])
    BY SettingsMadeSteps
<1> DEFINE n == Len(s)
           T == {k \in 0..n : IsOptions(h[k])}
<1>2. n \in Nat
    OBVIOUS
<1>3. 0 \in T
    BY <1>1, <1>2
<1>4. ASSUME NEW k \in 1..n, k - 1 \in T PROVE k \in T
    BY <1>1, <1>4, OptionsStay
<1> HIDE DEF n, T
<1>5. \A k \in 0..n : k \in T
    BY <1>2, <1>3, <1>4, UpTo
<1>6. n \in T
    BY <1>2, <1>5
<1> QED
    BY <1>1, <1>6 DEF n, T

\* What is kept between the lines of configurations; the settings are o all along.
Reading(a, o) ==
    /\ a = [opts |-> a.opts, keep_looking |-> a.keep_looking, cfg_filters |-> a.cfg_filters, excluded |-> a.excluded]
    /\ a.opts = o

\* The lines of a configuration that OnlyFilters allows.
FilterNames == {"set noparent", "filter", "exclude_files"}

\* A line of these leaves the settings as they are,
LEMMA LineLeavesSettings ==
    ASSUME NEW a, NEW o, Reading(a, o), NEW line, line.name \in FilterNames, NEW dir, NEW base
    PROVE  Reading(ConfigLine(a, line, dir, base), o)
<1>1. CASE a.excluded
    BY <1>1 DEF ConfigLine, Reading, FilterNames
<1>2. CASE ~a.excluded /\ line.name = "set noparent"
    BY <1>2 DEF ConfigLine, Reading
<1>3. CASE ~a.excluded /\ line.name = "filter"
    BY <1>3 DEF ConfigLine, Reading
<1>4. CASE ~a.excluded /\ line.name = "exclude_files"
    BY <1>4 DEF ConfigLine, Reading
<1> QED
    BY <1>1, <1>2, <1>3, <1>4 DEF FilterNames

\* and so does a configuration of such lines,
LEMMA LinesLeaveSettings ==
    ASSUME NEW a, NEW o, Reading(a, o), NEW dir, NEW base,
           NEW X, NEW s \in Seq(X), \A i \in DOMAIN s : s[i].name \in FilterNames
    PROVE  Reading(ConfigLines(a, s, dir, base), o)
<1>1. PICK h : /\ h[0] = a /\ h[Len(s)] = ConfigLines(a, s, dir, base)
               /\ \A k \in 1..Len(s) : h[k] = ConfigLine(h[k - 1], s[k], dir, base)
    BY ConfigLinesSteps
<1> DEFINE n == Len(s)
           T == {k \in 0..n : Reading(h[k], o)}
<1>2. n \in Nat /\ DOMAIN s = 1..n
    OBVIOUS
<1>3. 0 \in T
    BY <1>1, <1>2
<1>4. ASSUME NEW k \in 1..n, k - 1 \in T PROVE k \in T
    BY <1>1, <1>2, <1>4, LineLeavesSettings
<1> HIDE DEF n, T
<1>5. \A k \in 0..n : k \in T
    BY <1>2, <1>3, <1>4, UpTo
<1>6. n \in T
    BY <1>2, <1>5
<1> QED
    BY <1>1, <1>6 DEF n, T

\* A tree whose configurations are sequences of lines that only name filters.
FilterTree(tree) ==
    \A dir \in DOMAIN tree.config :
        /\ IsSequence(tree.config[dir])
        /\ \A i \in DOMAIN tree.config[dir] : tree.config[dir][i].name \in FilterNames

\* whether it is read or not,
LEMMA ConfigurationLeavesSettings ==
    ASSUME NEW a, NEW o, Reading(a, o), NEW tree, FilterTree(tree), NEW dir, NEW base
    PROVE  Reading(ConfigOf(a, tree, dir, base), o)
<1>1. CASE ~a.keep_looking \/ a.excluded \/ dir \notin DOMAIN tree.config
    BY <1>1 DEF ConfigOf
<1>2. CASE /\ ~(~a.keep_looking \/ a.excluded \/ dir \notin DOMAIN tree.config)
           /\ dir \in tree.unreadable
    BY <1>2 DEF ConfigOf, Reading
<1>3. CASE /\ ~(~a.keep_looking \/ a.excluded \/ dir \notin DOMAIN tree.config)
           /\ dir \notin tree.unreadable
  <2>1. ConfigOf(a, tree, dir, base) = ConfigLines(a, tree.config[dir], dir, base)
      BY <1>3 DEF ConfigOf, ConfigLines
  <2>2. PICK s : s = tree.config[dir]
      OBVIOUS
  <2>3. s \in Seq(ToSet(s)) /\ \A i \in DOMAIN s : s[i].name \in FilterNames
      BY <1>3, <2>2 DEF FilterTree, IsSequence
  <2>4. Reading(ConfigLines(a, s, dir, base), o)
      BY <2>3, LinesLeaveSettings
  <2> QED
      BY <2>1, <2>2, <2>4
<1> QED
    BY <1>1, <1>2, <1>3

\* and so do the configurations of all directories above a file.
LEMMA ConfigurationsLeaveSettings ==
    ASSUME NEW a, NEW o, Reading(a, o), NEW tree, FilterTree(tree), NEW path, NEW s \in Seq(Int)
    PROVE  Reading(ConfigsAt(a, tree, path, s), o)
<1>1. PICK h : /\ h[0] = a /\ h[Len(s)] = ConfigsAt(a, tree, path, s)
               /\ \A k \in 1..Len(s) : h[k] = ConfigAt(h[k - 1], s[k], tree, path)
    BY ConfigsAtSteps
<1> DEFINE n == Len(s)
           T == {k \in 0..n : Reading(h[k], o)}
<1>2. n \in Nat
    OBVIOUS
<1>3. 0 \in T
    BY <1>1, <1>2
<1>4. ASSUME NEW k \in 1..n, k - 1 \in T PROVE k \in T
    BY <1>1, <1>4, ConfigurationLeavesSettings DEF ConfigAt
<1> HIDE DEF n, T
<1>5. \A k \in 0..n : k \in T
    BY <1>2, <1>3, <1>4, UpTo
<1>6. n \in T
    BY <1>2, <1>5
<1> QED
    BY <1>1, <1>6 DEF n, T

\* What ProcessConfigOverrides starts from, and what it has read in the end.
Started(o) == [opts |-> o, keep_looking |-> TRUE, cfg_filters |-> <<>>, excluded |-> FALSE]
ReadFor(o, tree, path) == ConfigsAt(Started(o), tree, path, [i \in DOMAIN path |-> i])

\* Settings with other filters.
Refiltered(o, filters) == [o EXCEPT !.filters = filters]

\* Configurations that only name filters leave all settings but the filters.
LEMMA OverridesLeaveSettings ==
    ASSUME NEW o, IsOptions(o), NEW tree, FilterTree(tree), NEW path \in Path
    PROVE  \E filters : ProcessConfigOverrides(o, tree, path).opts = Refiltered(o, filters)
<1> DEFINE read == ReadFor(o, tree, path)
           added == FlattenSeq(Reverse(read.cfg_filters))
<1>1. ProcessConfigOverrides(o, tree, path).opts =
          IF read.excluded THEN read.opts ELSE [read.opts EXCEPT !.filters = @ \o added]
    BY DEF ProcessConfigOverrides, FoldLeftDomain, ReadFor, Started, ConfigsAt, ConfigAt
<1>2. Reading(Started(o), o)
    BY DEF Reading, Started
<1>3. [i \in DOMAIN path |-> i] \in Seq(Int)
    BY DEF Path
<1>4. Reading(read, o)
    BY <1>2, <1>3, ConfigurationsLeaveSettings DEF ReadFor
<1> HIDE DEF read, added
<1>5. o = Refiltered(o, o.filters)
    BY DEF IsOptions, Refiltered
<1>6. read.opts = o
    BY <1>4 DEF Reading
<1>7. [read.opts EXCEPT !.filters = @ \o added] = Refiltered(o, o.filters \o added)
    BY <1>6 DEF Refiltered
<1> QED
    BY <1>1, <1>5, <1>6, <1>7
-----------------------------------------------------------------------------
(* A file on its way through its lines.                                     *)

\* The fields of the record that a file is.
IsFile(f) ==
    f = [info |-> f.info, lines |-> f.lines, n |-> f.n, clean |-> f.clean, judge |-> f.judge,
         include |-> f.include, function |-> f.function, nesting |-> f.nesting]

\* A file keeps its lines and goes from line to line, whatever the checks say.
LEMMA PreparedFile ==
    ASSUME NEW o, NEW info, NEW lines
    PROVE  LET f == Prepared(o, info, lines) IN IsFile(f) /\ f.lines = lines /\ f.n = 1
BY DEF Prepared, PreparedText, FileOf, IsFile

LEMMA CheckedFile ==
    ASSUME NEW f, IsFile(f), NEW o, NEW judge, NEW function, NEW language
    PROVE  LET g == CheckedLine(f, o, judge, function, language)
           IN IsFile(g) /\ g.lines = f.lines /\ g.n = f.n
<1>1. PICK printing : printing = Errors(judge, o, function.errors
                                         \o CheckForMultilineCommentsAndStrings(f.clean.elided[f.n], f.n)
                                         \o CheckStyle(f, o) \o language.errors)
    OBVIOUS
<1>2. PICK state : state = function.state
    OBVIOUS
<1>3. PICK include : include = language.state
    OBVIOUS
<1>4. CheckedLine(f, o, judge, function, language) =
          [f EXCEPT !.function = state, !.include = include, !.judge = printing]
    BY <1>1, <1>2, <1>3 DEF CheckedLine
<1> QED
    BY <1>4 DEF IsFile

LEMMA NestedFile ==
    ASSUME NEW f, IsFile(f), NEW o, NEW judge, NEW update
    PROVE  LET g == NestedLine(f, o, judge, update) IN IsFile(g) /\ g.lines = f.lines /\ g.n = f.n
<1> DEFINE blocks == Errors(judge, o, update.errors
                               \o CheckForNamespaceIndentation(update.nesting, f.clean.elided, f.n))
           nested == [f EXCEPT !.nesting = update.nesting]
           function == CheckForFunctionLengths(f.function, f.clean.lines, o.verbose_level, f.n)
           asm == [f EXCEPT !.nesting = update.nesting, !.judge = blocks]
<1>1. NestedLine(f, o, judge, update) =
          IF InAsmBlock(update.nesting) THEN asm ELSE CheckedLine(nested, o, blocks, function, CheckLanguage(f, o))
    BY DEF NestedLine
<1>2. IsFile(asm) /\ asm.lines = f.lines /\ asm.n = f.n
  <2>1. PICK nesting : nesting = update.nesting
      OBVIOUS
  <2>2. PICK printing : printing = blocks
      OBVIOUS
  <2>3. asm = [f EXCEPT !.nesting = nesting, !.judge = printing]
      BY <2>1, <2>2
  <2> HIDE DEF blocks, asm
  <2> QED
      BY <2>3 DEF IsFile
<1>3. IsFile(nested) /\ nested.lines = f.lines /\ nested.n = f.n
    BY DEF IsFile
<1> HIDE DEF blocks, nested, function, asm
<1> QED
    BY <1>1, <1>2, <1>3, CheckedFile

LEMMA ProcessedFile ==
    ASSUME NEW f, IsFile(f), NEW o
    PROVE  LET g == ProcessedLine(f, o) IN IsFile(g) /\ g.lines = f.lines /\ g.n = f.n + 1
<1> DEFINE nolint == ParseNolintSuppressions(f.judge, o, f.clean.raw_lines[f.n], f.n)
           processed == NestedLine(f, o, nolint, Update(f.nesting, f.clean, f.n))
           judge == Errors(processed.judge, o, FlagCxx11Features(f.clean.elided[f.n], f.n))
<1>1. ProcessedLine(f, o) = [processed EXCEPT !.n = processed.n + 1, !.judge = judge]
    BY DEF ProcessedLine
<1>2. IsFile(processed) /\ processed.lines = f.lines /\ processed.n = f.n
    BY NestedFile
<1> HIDE DEF nolint, processed, judge
<1> QED
    BY <1>1, <1>2 DEF IsFile

-----------------------------------------------------------------------------
(* The names of files.                                                      *)

\* Leaving out names leaves a sequence of names.
LEMMA WithoutIsSequence ==
    ASSUME NEW X, NEW s \in Seq(X), NEW out
    PROVE  Without(s, out) \in Seq(X)
<1>1. PICK h : /\ h[0] = <<>> /\ h[Len(s)] = Without(s, out)
               /\ \A k \in 1..Len(s) : h[k] = Kept(h[k - 1], s[k], out)
    BY WithoutSteps
<1> DEFINE n == Len(s)
           T == {k \in 0..n : h[k] \in Seq(X)}
<1>2. n \in Nat
    OBVIOUS
<1>x. h[0] \in Seq(X)
  <2>1. <<>> \in Seq(X)
      OBVIOUS
  <2> QED
      BY <1>1, <2>1, Zenon
<1>3. 0 \in T
    BY <1>2, <1>x
<1>4. ASSUME NEW k \in 1..n, k - 1 \in T PROVE k \in T
  <2>1. s[k] \in X /\ h[k - 1] \in Seq(X) /\ k \in 0..n
      BY <1>4
  <2>2. h[k] = h[k - 1] \/ h[k] = Append(h[k - 1], s[k])
      BY <1>1 DEF Kept
  <2>3. Append(h[k - 1], s[k]) \in Seq(X)
      BY <2>1
  <2>4. h[k] \in Seq(X)
      BY <2>1, <2>2, <2>3, Zenon
  <2> QED
      BY <2>1, <2>4
<1> HIDE DEF n, T
<1>5. \A k \in 0..n : k \in T
    BY <1>2, <1>3, <1>4, UpTo
<1>6. n \in T
    BY <1>2, <1>5
<1> QED
    BY <1>1, <1>6 DEF n, T

\* What is to be judged are paths, in whatever order the directories are read.
LEMMA FileNamesArePaths ==
    ASSUME world \in DOMAIN Worlds, command.files \in Seq(Path), NEW o, NEW names \in FileNames(o)
    PROVE  names \in Seq(Path)
<1>1. CASE command.recursive
  <2>1. PICK s \in SetToSeqs(Expanded(o)) : names = Without(s, command.exclude)
      BY <1>1 DEF FileNames
  <2>2. Expanded(o) \in SUBSET Path /\ IsFiniteSet(Expanded(o))
    <3>1. DOMAIN World.text \in SUBSET Path /\ IsFiniteSet(DOMAIN World.text)
        BY LintRunAssumption DEF World
    <3>2. Expanded(o) \in SUBSET (DOMAIN World.text)
        BY DEF Expanded
    <3> QED
        BY <3>1, <3>2, FS_Subset
  <2>3. Cardinality(Expanded(o)) \in Nat
      BY <2>2, FS_CardinalityType
  <2>4. s \in Seq(Path)
      BY <2>1, <2>2, <2>3 DEF SetToSeqs
  <2> QED
      BY <2>1, <2>4, WithoutIsSequence
<1>2. CASE ~command.recursive
    BY <1>2, WithoutIsSequence DEF FileNames
<1> QED
    BY <1>1, <1>2

\* What the hook hands over are paths.
LEMMA StagedArePaths ==
    ASSUME world \in DOMAIN Worlds
    PROVE  Staged \in Seq(Path)
<1>1. World.command.files \in Seq(Path)
    BY LintRunAssumption DEF World
<1> QED
    BY <1>1, WithoutIsSequence DEF Staged
-----------------------------------------------------------------------------
(* The run.                                                                 *)

\* The settings that the options of the command line make, before any file.
Base(asked) ==
    BackupFilters([SettingsMade(Options, asked.settings) EXCEPT !.filters = DefaultFilters \o asked.filters])

\* The settings when a file is judged, whatever was judged before.
Own(asked, tree, path) == ProcessConfigOverrides(Base(asked), tree, path).opts

\* The file f has gone through its first lines, from how it was prepared.
OnItsWay(f, o, info) ==
    /\ IsFile(f) /\ f.lines \in Seq(Seq(STRING)) /\ f.n \in 1..Len(f.lines) + 1
    /\ \E h : /\ h[0] = Prepared(o, info, f.lines) /\ h[Len(f.lines)] = ProcessedLines(h[0], o, f.lines)
              /\ \A k \in 1..Len(f.lines) : h[k] = ProcessedLine(h[k - 1], o)
              /\ f = h[f.n - 1]

\* The invariant for JudgedAlone. Between two files the settings are those that the
\* command line made, but for the filters in force, which the next file replaces;
\* within a file they are its own, and the file has come from its lines with them.
RunInv ==
    /\ world \in DOMAIN Worlds
    /\ IsSequence(command.settings) /\ command.files \in Seq(Path) /\ queue \in Seq(Path)
    /\ IsSequence(judged)
    /\ pc \in {"hook", "arguments"} => opts = Options /\ judged = <<>>
    /\ pc = "main" => BackupFilters(opts) = Base(command)
    /\ pc = "line" => /\ queue # <<>> /\ opts = Own(command, World, Head(queue))
                      /\ OnItsWay(file, opts, World.info[Head(queue)])
    /\ JudgedAlone

\* What the command line makes are settings, with the filters kept for later.
LEMMA BaseIsOptions ==
    ASSUME NEW asked, IsSequence(asked.settings)
    PROVE  /\ IsOptions(Base(asked)) /\ Base(asked).filters_backup = Base(asked).filters
           /\ \A o : o = [SettingsMade(Options, asked.settings) EXCEPT !.filters = DefaultFilters \o asked.filters]
                 => BackupFilters(o) = Base(asked)
<1>1. PICK s : s = asked.settings
    OBVIOUS
<1>2. IsOptions(Options)
    BY DEF IsOptions, Options
<1>3. IsOptions(SettingsMade(Options, s))
    BY <1>1, <1>2, SettingsAreOptions DEF IsSequence
<1>4. PICK o : o = SettingsMade(Options, s)
    OBVIOUS
<1>5. PICK filters : filters = DefaultFilters \o asked.filters
    OBVIOUS
<1>6. PICK p : p = [o EXCEPT !.filters = filters]
    OBVIOUS
<1>7. IsOptions(p)
    BY <1>3, <1>4, <1>6 DEF IsOptions
<1>8. Base(asked) = BackupFilters(p)
    BY <1>1, <1>4, <1>5, <1>6 DEF Base
<1>9. IsOptions(BackupFilters(p)) /\ BackupFilters(p).filters_backup = BackupFilters(p).filters
    BY <1>7 DEF IsOptions, BackupFilters
<1> QED
    BY <1>1, <1>4, <1>5, <1>6, <1>8, <1>9

\* The configurations that a run finds are such as OnlyFilters says.
LEMMA WorldIsTree ==
    ASSUME OnlyFilters, world \in DOMAIN Worlds
    PROVE  FilterTree(World)
BY LintRunAssumption DEF OnlyFilters, FilterTree, FilterNames, World

\* The filters a file was judged with are not left for the next.
LEMMA FiltersRestored ==
    ASSUME OnlyFilters, world \in DOMAIN Worlds, IsSequence(command.settings), NEW path \in Path
    PROVE  BackupFilters(RestoreFilters(Own(command, World, path))) = Base(command)
<1>1. PICK b : b = Base(command)
    OBVIOUS
<1>2. IsOptions(b) /\ b.filters_backup = b.filters
    BY <1>1, BaseIsOptions
<1>3. PICK tree : tree = World /\ FilterTree(tree)
    BY WorldIsTree
<1>4. PICK filters : Own(command, World, path) = Refiltered(b, filters)
  <2>1. \E filters : ProcessConfigOverrides(b, tree, path).opts = Refiltered(b, filters)
      BY <1>2, <1>3, OverridesLeaveSettings
  <2> QED
      BY <1>1, <1>3, <2>1 DEF Own
<1>5. PICK c : c = Refiltered(b, filters)
    OBVIOUS
<1>6. BackupFilters(RestoreFilters(c)) = b
    BY <1>2, <1>5 DEF IsOptions, BackupFilters, RestoreFilters, Refiltered
<1> QED
    BY <1>1, <1>4, <1>5, <1>6

\* The settings of a file said in two ways.
LEMMA OwnIsOwn ==
    ASSUME NEW path
    PROVE  OwnOptions(path) = Own(command, World, path)
BY DEF OwnOptions, OwnConfig, Own, Base, SettingsMade

\* The next file gets its own settings if the last one left those of the command line.
LEMMA ConfigIsOwn ==
    ASSUME BackupFilters(opts) = Base(command)
    PROVE  Config.opts = Own(command, World, Head(queue))
BY DEF Config, Own

\* A run begins in RunInv.
LEMMA RunInit == Init => RunInv
<1> SUFFICES ASSUME Init PROVE RunInv
    OBVIOUS
<1>1. /\ world \in DOMAIN Worlds /\ pc \in {"hook", "arguments"} /\ opts = Options
      /\ command = Worlds[world].command /\ queue = <<>> /\ judged = <<>>
    BY DEF Init, World
<1>2. IsSequence(command.settings) /\ command.files \in Seq(Path)
    BY <1>1, LintRunAssumption
<1>3. IsSequence(judged) /\ queue \in Seq(Path)
    BY <1>1 DEF IsSequence
<1>4. JudgedAlone
    BY <1>1 DEF JudgedAlone, NewlyJudged
<1> QED
    BY <1>1, <1>2, <1>3, <1>4 DEF RunInv

\* What one more element makes of a sequence.
LEMMA StillSequence ==
    ASSUME NEW s, IsSequence(s), NEW e
    PROVE  LET t == Append(s, e) IN IsSequence(t) /\ t # <<>> /\ Last(t) = e
<1>1. PICK X : s \in Seq(X) /\ X = ToSet(s)
    BY DEF IsSequence
<1>2. Append(s, e) \in Seq(X \cup {e})
    BY <1>1
<1>3. PICK t : t = Append(s, e)
    OBVIOUS
<1>4. t \in Seq(ToSet(t))
    BY <1>2, <1>3 DEF ToSet
<1>5. Len(t) = Len(s) + 1 /\ t[Len(s) + 1] = e
    BY <1>1, <1>3
<1> QED
    BY <1>1, <1>3, <1>4, <1>5 DEF IsSequence, Last

\* What a file that was not judged leaves.
LEMMA LeftOutStep ==
    ASSUME OnlyFilters, RunInv, pc = "main", queue # <<>>, NEW reason, reason # "judged", LeftOut(reason)
    PROVE  RunInv'
<1>1. /\ queue' = Tail(queue) /\ opts' = RestoreFilters(Own(command, World, Head(queue)))
      /\ world' = world /\ pc' = pc /\ command' = command /\ World' = World
    BY ConfigIsOwn DEF LeftOut, RunInv, World
<1>2. PICK e : e.outcome = reason /\ judged' = Append(judged, e)
  <2>1. judged' = Append(judged, [name |-> Head(queue), outcome |-> reason, lines |-> <<>>, judge |-> NoErrors])
      BY DEF LeftOut
  <2> QED
      BY <2>1
<1>3. IsSequence(judged') /\ Last(judged').outcome # "judged"
    BY <1>2, StillSequence DEF RunInv
<1>4. Head(queue) \in Path /\ Tail(queue) \in Seq(Path)
    BY DEF RunInv
<1>5. BackupFilters(opts') = Base(command')
    BY <1>1, <1>4, FiltersRestored DEF RunInv
<1>6. JudgedAlone'
    BY <1>3 DEF JudgedAlone, NewlyJudged
<1> QED
    BY <1>1, <1>3, <1>4, <1>5, <1>6 DEF RunInv

\* A file that is begun is as it was prepared.
LEMMA StartFileStep ==
    ASSUME OnlyFilters, RunInv, StartFile
    PROVE  RunInv'
<1>1. /\ pc = "main" /\ pc' = "line" /\ queue # <<>> /\ queue' = queue /\ opts' = Own(command, World, Head(queue))
      /\ world' = world /\ command' = command /\ World' = World /\ judged' = judged
    BY ConfigIsOwn DEF StartFile, Opens, Reads, Begins, RunInv, World
<1>2. PICK lines \in World.text[Head(queue)] :
          file' = Prepared(opts', World.info[Head(queue)], lines)
    BY DEF StartFile
<1>3. lines \in Seq(Seq(STRING))
  <2>1. Head(queue) \in DOMAIN World.text
      BY DEF StartFile, Opens, Readable
  <2> QED
      BY <2>1, LintRunAssumption DEF World, RunInv
<1>4. PICK info : info = World.info[Head(queue)] /\ info = World'.info[Head(queue')]
    BY <1>1
<1>5. PICK o : o = opts'
    OBVIOUS
<1>6. PICK f : f = Prepared(o, info, lines)
    OBVIOUS
<1>7. IsFile(f) /\ f.lines = lines /\ f.n = 1
    BY <1>6, PreparedFile
<1>8. OnItsWay(f, o, info)
  <2>1. PICK h : /\ h[0] = f /\ h[Len(lines)] = ProcessedLines(f, o, lines)
                 /\ \A k \in 1..Len(lines) : h[k] = ProcessedLine(h[k - 1], o)
      BY <1>3, ProcessedLinesSteps
  <2>2. 1 \in 1..Len(lines) + 1
      BY <1>3
  <2> QED
      BY <1>3, <1>6, <1>7, <2>1, <2>2 DEF OnItsWay
<1>9. OnItsWay(file', opts', World'.info[Head(queue')])
    BY <1>2, <1>4, <1>5, <1>6, <1>8
<1>10. JudgedAlone'
    BY <1>1 DEF JudgedAlone, NewlyJudged
<1> QED
    BY <1>1, <1>9, <1>10 DEF RunInv

\* A line brings a file one step on its way.
LEMMA ProcessLineStep ==
    ASSUME RunInv, ProcessLine
    PROVE  RunInv'
<1>1. /\ pc = "line" /\ pc' = "line" /\ queue' = queue /\ opts' = opts
      /\ world' = world /\ command' = command /\ World' = World /\ judged' = judged
    BY DEF ProcessLine, World
<1>2. PICK o : o = opts
    OBVIOUS
<1>3. PICK info : info = World.info[Head(queue)]
    OBVIOUS
<1>4. PICK f : f = file
    OBVIOUS
<1>5. PICK g : g = ProcessedLine(f, o)
    OBVIOUS
<1>6. OnItsWay(f, o, info) /\ f.n <= Len(f.lines)
    BY <1>1, <1>2, <1>3, <1>4 DEF RunInv, ProcessLine
<1>7. IsFile(g) /\ g.lines = f.lines /\ g.n = f.n + 1
    BY <1>5, <1>6, ProcessedFile DEF OnItsWay
<1>8. OnItsWay(g, o, info)
  <2>1. PICK h : /\ h[0] = Prepared(o, info, f.lines) /\ h[Len(f.lines)] = ProcessedLines(h[0], o, f.lines)
                 /\ \A k \in 1..Len(f.lines) : h[k] = ProcessedLine(h[k - 1], o)
                 /\ f = h[f.n - 1]
      BY <1>6 DEF OnItsWay
  <2>2. f.n \in 1..Len(f.lines) /\ g.n \in 1..Len(g.lines) + 1 /\ g.n - 1 = f.n /\ f.lines \in Seq(Seq(STRING))
      BY <1>6, <1>7 DEF OnItsWay
  <2>3. g = h[g.n - 1]
      BY <1>5, <2>1, <2>2
  <2> QED
      BY <1>7, <2>1, <2>2, <2>3 DEF OnItsWay
<1>9. OnItsWay(file', opts', World'.info[Head(queue')])
    BY <1>1, <1>2, <1>3, <1>4, <1>5, <1>8 DEF ProcessLine
<1>10. JudgedAlone'
    BY <1>1 DEF JudgedAlone, NewlyJudged
<1> QED
    BY <1>1, <1>9, <1>10 DEF RunInv

\* A file that is finished is at the end of its way: what is said of it is what is
\* said of it alone.
LEMMA FinishFileStep ==
    ASSUME OnlyFilters, RunInv, FinishFile
    PROVE  RunInv'
<1>1. /\ pc = "line" /\ pc' = "main" /\ queue # <<>> /\ queue' = Tail(queue) /\ opts' = RestoreFilters(opts)
      /\ world' = world /\ command' = command /\ World' = World
      /\ opts = Own(command, World, Head(queue))
    BY DEF FinishFile, RunInv, World
<1>2. Head(queue) \in Path /\ Tail(queue) \in Seq(Path)
    BY <1>1 DEF RunInv
<1>3. BackupFilters(opts') = Base(command')
    BY <1>1, <1>2, FiltersRestored DEF RunInv
<1>4. PICK e : /\ judged' = Append(judged, e) /\ e.name = Head(queue) /\ e.lines = file.lines
               /\ e.judge = Finished(file, opts)
  <2>1. judged' = Append(judged, [name |-> Head(queue), outcome |-> "judged", lines |-> file.lines,
                                  judge |-> Finished(file, opts)])
      BY DEF FinishFile
  <2> QED
      BY <2>1
<1>5. IsSequence(judged') /\ Last(judged') = e
    BY <1>4, StillSequence DEF RunInv
<1>6. PICK o : o = opts
    OBVIOUS
<1>7. PICK info : info = World.info[Head(queue)]
    OBVIOUS
<1>8. PICK f : f = file
    OBVIOUS
<1>9. OnItsWay(f, o, info) /\ f.n > Len(f.lines)
    BY <1>1, <1>6, <1>7, <1>8 DEF RunInv, FinishFile
<1>10. f = ProcessedLines(Prepared(o, info, f.lines), o, f.lines)
  <2>1. PICK h : /\ h[0] = Prepared(o, info, f.lines) /\ h[Len(f.lines)] = ProcessedLines(h[0], o, f.lines)
                 /\ f = h[f.n - 1]
      BY <1>9 DEF OnItsWay
  <2>2. f.n - 1 = Len(f.lines)
      BY <1>9 DEF OnItsWay
  <2> QED
      BY <2>1, <2>2
<1>11. e.judge = AloneJudge(o, Head(queue), f.lines)
    BY <1>4, <1>6, <1>7, <1>8, <1>10 DEF AloneJudge
<1>12. OwnOptions(Head(queue)) = o
    BY <1>1, <1>6, OwnIsOwn
<1>13. e.judge = AloneJudge(OwnOptions(e.name), e.name, e.lines)
    BY <1>4, <1>8, <1>11, <1>12
<1>14. (AloneJudge(OwnOptions(e.name), e.name, e.lines))' = AloneJudge(OwnOptions(e.name), e.name, e.lines)
    BY <1>1 DEF AloneJudge, OwnOptions, OwnConfig
<1>15. JudgedAlone'
    BY <1>5, <1>13, <1>14 DEF JudgedAlone
<1> QED
    BY <1>1, <1>2, <1>3, <1>5, <1>15 DEF RunInv

\* What is exited with does not matter for a file.
LEMMA ExitStep ==
    ASSUME RunInv, NEW code, Exit(code)
    PROVE  RunInv'
<1>1. /\ pc' = "exit" /\ world' = world /\ command' = command /\ queue' = queue /\ judged' = judged
    BY DEF Exit
<1>2. JudgedAlone'
    BY <1>1 DEF JudgedAlone, NewlyJudged
<1> QED
    BY <1>1, <1>2 DEF RunInv

\* Every step of a run keeps RunInv.
LEMMA RunNext == ASSUME OnlyFilters, RunInv, [Next]_vars PROVE RunInv'
<1>1. CASE HookRefuses \/ HookPasses \/ ParseArgumentsFails \/ Crash \/ Finish
    BY <1>1, ExitStep DEF HookRefuses, HookPasses, ParseArgumentsFails, Crash, Finish
<1>2. CASE HookCalls
  <2>1. /\ pc' = "arguments" /\ opts' = Options /\ judged' = <<>> /\ world' = world /\ queue' = queue
        /\ command'.files = Staged
      BY <1>2 DEF HookCalls, RunInv
  <2>2. PICK s : /\ command'.settings = s
                 /\ s = <<[name |-> "extensions", val |-> HookExtensions],
                          [name |-> "linelength", val |-> HookLineLength]>>
      BY <1>2 DEF HookCalls
  <2>3. IsSequence(s)
      BY <2>2 DEF IsSequence, ToSet
  <2>4. IsSequence(judged')
      BY <2>1 DEF IsSequence
  <2>5. JudgedAlone'
      BY <2>1 DEF JudgedAlone, NewlyJudged
  <2> QED
      BY <2>1, <2>2, <2>3, <2>4, <2>5, StagedArePaths DEF RunInv
<1>3. CASE ParseArguments
  <2>1. /\ pc = "arguments" /\ pc' = "main" /\ world' = world /\ command' = command /\ judged' = judged
        /\ judged = <<>> /\ opts = Options /\ queue' \in FileNames(ParsedOptions)
      BY <1>3 DEF ParseArguments, RunInv
  <2>2. queue' \in Seq(Path)
      BY <2>1, FileNamesArePaths DEF RunInv
  <2>3. opts' = [SettingsMade(Options, command.settings) EXCEPT !.filters = DefaultFilters \o command.filters]
      BY <1>3, <2>1 DEF ParseArguments, ParsedOptions, SettingsMade
  <2>4. BackupFilters(opts') = Base(command)
      BY <2>3, BaseIsOptions DEF RunInv
  <2>5. JudgedAlone'
      BY <2>1 DEF JudgedAlone, NewlyJudged
  <2> QED
      BY <2>1, <2>2, <2>4, <2>5 DEF RunInv
<1>4. CASE Excluded
    BY <1>4, LeftOutStep DEF Excluded, Begins
<1>5. CASE Unreadable
    BY <1>5, LeftOutStep DEF Unreadable, Reads, Begins
<1>6. CASE IgnoredExtension
    BY <1>6, LeftOutStep DEF IgnoredExtension, Opens, Reads, Begins
<1>7. CASE StartFile
    BY <1>7, StartFileStep
<1>8. CASE ProcessLine
    BY <1>8, ProcessLineStep
<1>9. CASE FinishFile
    BY <1>9, FinishFileStep
<1>10. CASE UNCHANGED vars
  <2>1. /\ world' = world /\ pc' = pc /\ command' = command /\ opts' = opts /\ queue' = queue /\ file' = file
        /\ judged' = judged /\ World' = World
      BY <1>10 DEF vars, World
  <2>2. JudgedAlone'
      BY <2>1 DEF RunInv, JudgedAlone, NewlyJudged, OwnOptions, OwnConfig, AloneJudge
  <2> QED
      BY <2>1, <2>2 DEF RunInv
<1> QED
    BY <1>1, <1>2, <1>3, <1>4, <1>5, <1>6, <1>7, <1>8, <1>9, <1>10 DEF Next, Over

\* What cpplint.py says of a file does not depend on the files it judged before, if
\* the configurations say nothing but filters: in every run, of any files with any
\* lines, any configurations and any command line.
THEOREM JudgedAloneAlways == ASSUME OnlyFilters PROVE Spec => []JudgedAlone
<1>1. RunInv => JudgedAlone
    BY DEF RunInv
<1> QED
    BY <1>1, RunInit, RunNext, PTL DEF Spec
-----------------------------------------------------------------------------
(* Sequences, of whatever.                                                  *)

\* A sequence of whatever it holds.
LEMMA SeqIs == ASSUME NEW X, NEW s \in Seq(X) PROVE IsSequence(s)
BY DEF IsSequence, ToSet

LEMMA SeqHas ==
    ASSUME NEW s, IsSequence(s)
    PROVE  Len(s) \in Nat /\ DOMAIN s = 1..Len(s) /\ s \in Seq(ToSet(s))
BY DEF IsSequence

LEMMA SeqEmpty == IsSequence(<<>>) /\ Len(<<>>) = 0
BY DEF IsSequence

LEMMA SeqOne == ASSUME NEW e PROVE IsSequence(<<e>>)
<1>1. <<e>> \in Seq({e})
    OBVIOUS
<1> QED
    BY <1>1, SeqIs

LEMMA SeqTwo == ASSUME NEW e, NEW f PROVE IsSequence(<<e, f>>)
<1>1. <<e, f>> \in Seq({e, f})
    OBVIOUS
<1> QED
    BY <1>1, SeqIs

LEMMA SeqJoin ==
    ASSUME NEW s, IsSequence(s), NEW t, IsSequence(t)
    PROVE  IsSequence(s \o t)
<1>1. PICK X : X = ToSet(s) \cup ToSet(t)
    OBVIOUS
<1>2. s \in Seq(X) /\ t \in Seq(X)
  <2>1. s \in Seq(ToSet(s)) /\ t \in Seq(ToSet(t))
      BY DEF IsSequence
  <2>2. PICK Y, Z : Y = ToSet(s) /\ Z = ToSet(t)
      OBVIOUS
  <2> QED
      BY <1>1, <2>1, <2>2
<1>3. s \o t \in Seq(X)
    BY <1>2
<1> QED
    BY <1>3, SeqIs

LEMMA SeqPart ==
    ASSUME NEW s, IsSequence(s), NEW a \in Nat \ {0}, NEW b \in Int, b <= Len(s)
    PROVE  IsSequence(SubSeq(s, a, b))
<1>1. PICK X : s \in Seq(X)
    BY DEF IsSequence
<1>2. \A i \in a..b : s[i] \in X
    BY <1>1
<1>3. SubSeq(s, a, b) \in Seq(X)
    BY <1>1, <1>2
<1> QED
    BY <1>3, SeqIs

LEMMA SeqFront == ASSUME NEW s, IsSequence(s) PROVE IsSequence(Front(s))
<1>1. Len(s) - 1 \in Int /\ Len(s) - 1 <= Len(s)
    BY SeqHas
<1> QED
    BY <1>1, SeqPart DEF Front

LEMMA SeqAppend == ASSUME NEW s, IsSequence(s), NEW e PROVE IsSequence(Append(s, e))
BY StillSequence

LEMMA SeqMade ==
    ASSUME NEW n \in Nat, NEW f, f = [i \in 1..n |-> f[i]]
    PROVE  IsSequence(f) /\ Len(f) = n /\ DOMAIN f = 1..n
<1>1. PICK X : X = {f[i] : i \in 1..n}
    OBVIOUS
<1>2. f \in Seq(X)
    BY <1>1
<1>3. Len(f) = n /\ DOMAIN f = 1..n
    BY <1>2
<1> QED
    BY <1>2, <1>3, SeqIs

LEMMA SeqWithout == ASSUME NEW s, IsSequence(s), NEW out PROVE IsSequence(Without(s, out))
BY WithoutIsSequence, SeqIs DEF IsSequence

\* UpTo, for the last number.
LEMMA Chain ==
    ASSUME NEW n \in Nat, NEW T, 0 \in T, \A k \in 1..n : k - 1 \in T => k \in T
    PROVE  n \in T
<1>1. \A k \in 0..n : k \in T
    BY UpTo
<1> QED
    BY <1>1

-----------------------------------------------------------------------------
(* What the operators on lines give.                                        *)

\* Min of natural numbers is the least of them.
LEMMA MinIn ==
    ASSUME NEW I \in SUBSET Nat, I # {}
    PROVE  Min(I) \in I /\ \A i \in I : Min(I) <= i
<1>1. \E m \in I : \A i \in I : m <= i
    BY Smallest
<1> QED
    BY <1>1 DEF Min

\* The first and the last place with a property, or 0.
LEMMA FirstIn ==
    ASSUME NEW n \in Nat, NEW I \in SUBSET (1..n)
    PROVE  LET first == IF I # {} THEN Min(I) ELSE 0 IN first \in I \cup {0} /\ first \in 0..n
<1>1. I \in SUBSET Nat
    OBVIOUS
<1>2. CASE I = {}
  <2>1. 0 \in 0..n
      OBVIOUS
  <2> QED
      BY <1>2, <2>1
<1>3. CASE I # {}
  <2>1. PICK m : m = Min(I)
      OBVIOUS
  <2>2. m \in I
      BY <1>1, <1>3, <2>1, MinIn
  <2>3. m \in 0..n
      BY <2>2
  <2> QED
      BY <1>3, <2>1, <2>2, <2>3
<1> QED
    BY <1>2, <1>3

\* The last place with a property, or 0.
LEMMA LastIn ==
    ASSUME NEW n \in Nat, NEW I \in SUBSET (1..n)
    PROVE  LET last == IF I # {} THEN Max(I) ELSE 0 IN last \in I \cup {0} /\ last \in 0..n
<1>1. CASE I = {}
  <2>1. 0 \in 0..n
      OBVIOUS
  <2> QED
      BY <1>1, <2>1
<1>2. CASE I # {}
  <2>1. PICK m : m = Max(I)
      OBVIOUS
  <2>2. m \in I
      BY <1>2, <2>1, MaxIn
  <2>3. m \in 0..n
      BY <2>2
  <2> QED
      BY <1>2, <2>1, <2>2, <2>3
<1> QED
    BY <1>1, <1>2

\* The parts of a line that the operators of LintText cut off are sequences.
LEMMA FromType ==
    ASSUME NEW line, IsSequence(line), NEW i \in Nat \ {0}
    PROVE  IsSequence(From(line, i))
<1>1. Len(line) \in Int /\ Len(line) <= Len(line)
    BY SeqHas
<1> QED
    BY <1>1, SeqPart DEF From

LEMMA BeforeType ==
    ASSUME NEW line, IsSequence(line), NEW i \in Nat, i <= Len(line) + 1
    PROVE  IsSequence(Before(line, i))
<1>1. i - 1 \in Int /\ i - 1 <= Len(line)
    BY SeqHas
<1> QED
    BY <1>1, SeqPart DEF Before

\* For the first of the tokens of a line that is not t, when one that is not
\* t follows the line.
FirstNot(line, e, t) ==
    LET I == {i \in 1..Len(line \o <<e>>) : (line \o <<e>>)[i] # t}
    IN IF I # {} THEN Min(I) ELSE 0

\* There is one.
LEMMA FirstOther ==
    ASSUME NEW line, IsSequence(line), NEW t, NEW e, e # t
    PROVE  FirstNot(line, e, t) \in 1..Len(line) + 1
<1> DEFINE long == line \o <<e>>
           I == {i \in 1..Len(long) : long[i] # t}
<1>0. Len(line) \in Nat
    BY SeqHas
<1>1. Len(long) = Len(line) + 1 /\ long[Len(line) + 1] = e
  <2>1. PICK X : line \in Seq(X)
      BY DEF IsSequence
  <2>2. line \in Seq(X \cup {e}) /\ <<e>> \in Seq(X \cup {e})
      BY <2>1
  <2> QED
      BY <2>2
<1> HIDE DEF long
<1>2. Len(line) + 1 \in I
  <2>1. Len(line) + 1 \in 1..Len(long)
      BY <1>0, <1>1
  <2> QED
      BY <1>1, <2>1
<1>3. I \in SUBSET (1..Len(line) + 1)
    BY <1>1
<1> HIDE DEF I
<1>4. I \in SUBSET Nat
    BY <1>3
<1>5. Min(I) \in I
    BY <1>2, <1>4, MinIn
<1>6. (IF I # {} THEN Min(I) ELSE 0) \in 1..Len(line) + 1
    BY <1>2, <1>3, <1>5
<1> QED
    BY <1>6 DEF I, long, FirstNot

\* No line has more blanks than tokens.
LEMMA IndentType ==
    ASSUME NEW line, IsSequence(line)
    PROVE  Indent(line) \in Nat /\ Indent(line) <= Len(line)
<1>1. "$" # " "
    BY SMT
<1>2. FirstNot(line, "$", " ") \in 1..Len(line) + 1
    BY <1>1, FirstOther
<1>3. Indent(line) = FirstNot(line, "$", " ") - 1
    BY DEF Indent, SelectInSeq, FirstNot
<1>4. PICK n \in 1..Len(line) + 1 : Indent(line) = n - 1
    BY <1>2, <1>3
<1>5. Len(line) \in Nat
    BY SeqHas
<1> QED
    BY <1>4, <1>5

\* A line without the blanks before it, or behind it, is a sequence.
LEMMA LstripType == ASSUME NEW line, IsSequence(line) PROVE IsSequence(Lstrip(line))
<1>1. Indent(line) + 1 \in Nat \ {0}
    BY IndentType
<1>2. IsSequence(From(line, Indent(line) + 1))
    BY <1>1, FromType
<1> QED
    BY <1>2 DEF Lstrip, From

LEMMA RstripType == ASSUME NEW line, IsSequence(line) PROVE IsSequence(Rstrip(line))
<1> DEFINE I == {i \in 1..Len(line) : line[i] # " "}
           last == IF I # {} THEN Max(I) ELSE 0
<1>1. Len(line) \in Nat
    BY SeqHas
<1>2. I \in SUBSET (1..Len(line))
    OBVIOUS
<1>3. Rstrip(line) = SubSeq(line, 1, last)
    BY DEF Rstrip, SelectLastInSeq
<1> HIDE DEF I
<1>4. last \in 0..Len(line)
    BY <1>1, <1>2, LastIn
<1> HIDE DEF last
<1>5. last \in Int /\ last <= Len(line)
    BY <1>1, <1>4
<1> QED
    BY <1>3, <1>5, SeqPart

\* Find gives a place of the line, or 0.
LEMMA FindType ==
    ASSUME NEW line, IsSequence(line), NEW s, NEW from \in Nat
    PROVE  Find(line, s, from) \in Nat /\ (Find(line, s, from) # 0 => Find(line, s, from) \in from..Len(line))
<1> DEFINE I == {i \in from..Len(line) : StandsAt(line, s, i)}
<1>1. Len(line) \in Nat
    BY SeqHas
<1>2. Find(line, s, from) = IF I = {} THEN 0 ELSE Min(I)
    BY DEF Find
<1>3. I \in SUBSET (from..Len(line))
    OBVIOUS
<1> HIDE DEF I
<1>4. I \in SUBSET Nat
    BY <1>1, <1>3
<1>5. CASE I = {}
    BY <1>2, <1>5
<1>6. CASE I # {}
  <2>1. PICK m : m = Min(I)
      OBVIOUS
  <2>2. m \in I
      BY <1>4, <1>6, <2>1, MinIn
  <2>3. m \in Nat /\ m \in from..Len(line)
      BY <1>3, <1>4, <2>2
  <2> QED
      BY <1>2, <1>6, <2>1, <2>3
<1> QED
    BY <1>5, <1>6

\* The first of some places from a on, or 0.
LEMMA FirstFrom ==
    ASSUME NEW a \in Nat, NEW b \in Int, NEW I \in SUBSET (a..b)
    PROVE  LET first == IF I # {} THEN Min(I) ELSE 0
           IN first \in Nat /\ (first # 0 => first \in a..b /\ first \in I)
<1>1. I \in SUBSET Nat
    OBVIOUS
<1>2. CASE I = {}
    BY <1>2
<1>3. CASE I # {}
  <2>1. PICK m : m = Min(I)
      OBVIOUS
  <2>2. m \in I
      BY <1>1, <1>3, <2>1, MinIn
  <2>3. m \in Nat /\ m \in a..b
      BY <1>1, <2>2
  <2> QED
      BY <1>3, <2>1, <2>2, <2>3
<1> QED
    BY <1>2, <1>3

\* RawOpening gives a place of the line, or 0.
LEMMA RawOpeningType ==
    ASSUME NEW line, IsSequence(line), NEW i \in Nat
    PROVE  RawOpening(line, i) \in 0..Len(line)
<1> DEFINE I == {k \in i + 2..Len(line) : line[k] \in {" ", "\\", "(", ")"}}
           j == IF I # {} THEN Min(I) ELSE 0
<1>1. Len(line) \in Nat /\ i + 2 \in Nat
    BY SeqHas
<1>2. I \in SUBSET (i + 2..Len(line))
    OBVIOUS
<1>3. RawOpening(line, i) = 0 \/ RawOpening(line, i) = j
    BY DEF RawOpening, SelectInSubSeq
<1> HIDE DEF I
<1>4. j \in Nat /\ (j # 0 => j \in i + 2..Len(line))
    BY <1>1, <1>2, FirstFrom
<1> HIDE DEF j
<1> QED
    BY <1>1, <1>3, <1>4

\* A line that may end in a raw string.
IsRaw(s) == IsSequence(s.line) /\ IsSequence(s.delimiter)

\* Lines and delimiters stay sequences through CleanseRawStrings.
LEMMA CutRawStringType ==
    ASSUME NEW s, IsRaw(s)
    PROVE  IsRaw(CutRawString(s))
<1> DEFINE I == {i \in DOMAIN s.line : RawOpening(s.line, i) # 0}
           i == Min(I)
           j == RawOpening(s.line, i)
           delimiter == <<")">> \o SubSeq(s.line, i + 2, j - 1) \o <<Q>>
           end == Find(s.line, delimiter, j + 1)
           head == Before(s.line, i) \o <<Q, Q>>
           rest == head \o From(s.line, end + Len(delimiter))
           stops == s.delimiter # <<>> \/ I = {} \/ InLineComment(Before(s.line, i))
<1>1. CutRawString(s) = IF stops THEN s
                        ELSE IF end = 0 THEN [line |-> head, delimiter |-> delimiter]
                        ELSE [line |-> rest, delimiter |-> <<>>]
    BY DEF CutRawString
<1>2. CASE stops
    BY <1>1, <1>2
<1>3. CASE ~stops
  <2>1. Len(s.line) \in Nat /\ DOMAIN s.line = 1..Len(s.line)
      BY SeqHas DEF IsRaw
  <2>2. I \in SUBSET (1..Len(s.line)) /\ I # {}
      BY <1>3, <2>1
  <2> HIDE DEF I
  <2>3. i \in 1..Len(s.line)
    <3>1. I \in SUBSET Nat
        BY <2>2
    <3> QED
        BY <2>2, <3>1, MinIn
  <2> HIDE DEF i
  <2>4. j \in 0..Len(s.line)
      BY <2>1, <2>3, RawOpeningType DEF IsRaw
  <2> HIDE DEF j
  <2>5. IsSequence(delimiter)
    <3>1. i + 2 \in Nat \ {0} /\ j - 1 \in Int /\ j - 1 <= Len(s.line)
        BY <2>1, <2>3, <2>4
    <3>2. IsSequence(SubSeq(s.line, i + 2, j - 1))
        BY <3>1, SeqPart DEF IsRaw
    <3> QED
        BY <3>2, SeqOne, SeqJoin
  <2> HIDE DEF delimiter
  <2>6. IsSequence(head)
    <3>1. i \in Nat /\ i <= Len(s.line) + 1
        BY <2>1, <2>3
    <3>2. IsSequence(Before(s.line, i))
        BY <3>1, BeforeType DEF IsRaw
    <3> QED
        BY <3>2, SeqTwo, SeqJoin
  <2> HIDE DEF head
  <2>7. ASSUME end # 0 PROVE IsSequence(rest)
    <3>1. j + 1 \in Nat
        BY <2>1, <2>4
    <3>2. end \in Nat /\ Len(delimiter) \in Nat
        BY <2>5, <3>1, FindType, SeqHas DEF IsRaw
    <3>3. end + Len(delimiter) \in Nat \ {0}
        BY <2>7, <3>2
    <3>4. IsSequence(From(s.line, end + Len(delimiter)))
        BY <3>3, FromType DEF IsRaw
    <3> QED
        BY <2>6, <3>4, SeqJoin
  <2> HIDE DEF end, rest, stops
  <2> QED
      BY <1>1, <1>3, <2>5, <2>6, <2>7, SeqEmpty DEF IsRaw
<1> QED
    BY <1>2, <1>3

LEMMA CutRawStringsType ==
    ASSUME NEW line, IsSequence(line)
    PROVE  IsRaw(CutRawStrings(line))
<1>1. PICK b : b = [line |-> line, delimiter |-> <<>>]
    OBVIOUS
<1>2. IsRaw(b)
    BY <1>1, SeqEmpty DEF IsRaw
<1>3. PICK h : /\ h[0] = b /\ h[Len(line)] = RawCut(b, line)
               /\ \A k \in 1..Len(line) : h[k] = CutRawString(h[k - 1])
    BY RawCutSteps DEF IsSequence
<1> DEFINE n == Len(line)
           T == {k \in 0..n : IsRaw(h[k])}
<1>4. n \in Nat
    BY SeqHas
<1>5. 0 \in T
    BY <1>2, <1>3, <1>4
<1>6. ASSUME NEW k \in 1..n, k - 1 \in T PROVE k \in T
    BY <1>3, <1>6, CutRawStringType
<1> HIDE DEF n, T
<1>7. n \in T
    BY <1>4, <1>5, <1>6, Chain
<1>8. CutRawStrings(line) = RawCut(b, line)
    BY <1>1 DEF CutRawStrings, RawCut
<1> QED
    BY <1>3, <1>7, <1>8 DEF n, T

LEMMA CleanseRawLineType ==
    ASSUME NEW line, IsSequence(line), NEW delimiter, IsSequence(delimiter)
    PROVE  IsRaw(CleanseRawLine(line, delimiter))
<1> DEFINE end == Find(line, delimiter, 1)
           rest == SubSeq(line, 1, Indent(line)) \o <<Q, Q>> \o From(line, end + Len(delimiter))
<1>1. CleanseRawLine(line, delimiter) =
          IF delimiter = <<>> THEN CutRawStrings(line)
          ELSE IF end = 0 THEN [line |-> <<Q, Q>>, delimiter |-> delimiter]
          ELSE CutRawStrings(rest)
    BY DEF CleanseRawLine
<1>2. ASSUME end # 0 PROVE IsSequence(rest)
  <2>1. end \in Nat /\ Len(delimiter) \in Nat /\ Indent(line) \in Nat /\ Indent(line) <= Len(line)
      BY FindType, SeqHas, IndentType
  <2> HIDE DEF end
  <2>2. end + Len(delimiter) \in Nat \ {0}
      BY <1>2, <2>1
  <2>3. IsSequence(From(line, end + Len(delimiter)))
      BY <2>2, FromType
  <2>4. IsSequence(SubSeq(line, 1, Indent(line)))
      BY <2>1, SeqPart
  <2>5. IsSequence(SubSeq(line, 1, Indent(line)) \o <<Q, Q>>)
      BY <2>4, SeqTwo, SeqJoin
  <2> QED
      BY <2>3, <2>5, SeqJoin
<1> HIDE DEF end, rest
<1>3. IsRaw([line |-> <<Q, Q>>, delimiter |-> delimiter])
    BY SeqTwo DEF IsRaw
<1> QED
    BY <1>1, <1>2, <1>3, CutRawStringsType

\* Lines are a sequence of sequences.
IsText(lines) == IsSequence(lines) /\ \A i \in 1..Len(lines) : IsSequence(lines[i])

\* A text with one more line.
LEMMA LongerText ==
    ASSUME NEW lines, IsText(lines), NEW line, IsSequence(line)
    PROVE  IsText(Append(lines, line)) /\ Len(Append(lines, line)) = Len(lines) + 1
<1>1. PICK X : lines \in Seq(X)
    BY DEF IsText, IsSequence
<1>2. PICK t : t = Append(lines, line)
    OBVIOUS
<1>3. /\ Len(t) = Len(lines) + 1 /\ Len(lines) \in Nat
      /\ \A i \in 1..Len(lines) : t[i] = lines[i]
      /\ t[Len(lines) + 1] = line
    BY <1>1, <1>2
<1>4. IsSequence(t)
    BY <1>2, SeqAppend DEF IsText
<1>5. \A i \in 1..Len(t) : IsSequence(t[i])
  <2>1. \A i \in 1..Len(t) : i \in 1..Len(lines) \/ i = Len(lines) + 1
      BY <1>3
  <2> QED
      BY <1>3, <2>1 DEF IsText
<1> QED
    BY <1>2, <1>3, <1>4, <1>5 DEF IsText

\* Raw strings are emptied without losing or adding a line.
LEMMA CleanseRawStringsType ==
    ASSUME NEW lines, IsText(lines)
    PROVE  IsText(CleanseRawStrings(lines)) /\ Len(CleanseRawStrings(lines)) = Len(lines)
<1>1. PICK b : b = [delimiter |-> <<>>, lines |-> <<>>]
    OBVIOUS
<1>2. PICK h : /\ h[0] = b /\ h[Len(lines)] = Cleansed(b, lines)
               /\ \A k \in 1..Len(lines) : h[k] = CleansedUpTo(h[k - 1], lines[k])
    BY CleansedSteps DEF IsSequence, IsText
<1> DEFINE n == Len(lines)
           T == {k \in 0..n : IsSequence(h[k].delimiter) /\ IsText(h[k].lines) /\ Len(h[k].lines) = k}
<1>3. n \in Nat
    BY SeqHas DEF IsText
<1>4. 0 \in T
  <2>1. IsSequence(b.delimiter) /\ IsText(b.lines) /\ Len(b.lines) = 0
      BY <1>1, SeqEmpty DEF IsText
  <2> QED
      BY <1>2, <1>3, <2>1
<1>5. ASSUME NEW k \in 1..n, k - 1 \in T PROVE k \in T
  <2>1. PICK acc : acc = h[k - 1]
      OBVIOUS
  <2>2. IsSequence(acc.delimiter) /\ IsText(acc.lines) /\ Len(acc.lines) = k - 1
      BY <1>5, <2>1
  <2>3. IsSequence(lines[k])
      BY DEF IsText
  <2>4. PICK cut : cut = CleanseRawLine(lines[k], acc.delimiter)
      OBVIOUS
  <2>5. IsSequence(cut.line) /\ IsSequence(cut.delimiter)
      BY <2>2, <2>3, <2>4, CleanseRawLineType DEF IsRaw
  <2>6. PICK longer : longer = Append(acc.lines, cut.line)
      OBVIOUS
  <2>7. h[k] = [delimiter |-> cut.delimiter, lines |-> longer]
      BY <1>2, <2>1, <2>4, <2>6 DEF CleansedUpTo
  <2>8. IsText(longer) /\ Len(longer) = k
      BY <2>2, <2>5, <2>6, LongerText
  <2>9. IsSequence(h[k].delimiter) /\ IsText(h[k].lines) /\ Len(h[k].lines) = k
      BY <2>5, <2>7, <2>8
  <2> QED
      BY <2>9
<1> HIDE DEF n, T
<1>6. n \in T
    BY <1>3, <1>4, <1>5, Chain
<1>7. CleanseRawStrings(lines) = Cleansed(b, lines).lines
    BY <1>1 DEF CleanseRawStrings, Cleansed
<1> QED
    BY <1>2, <1>6, <1>7 DEF n, T

\* Comments and strings are cut out of a line: a line is left.
LEMMA CutCCommentType ==
    ASSUME NEW s, IsSequence(s.kept), IsSequence(s.rest)
    PROVE  LET t == CutCComment(s) IN IsSequence(t.kept) /\ IsSequence(t.rest)
<1> DEFINE p == Find(s.rest, <<"/*">>, 1)
           q == Find(s.rest, <<"*/">>, p + 1)
           head == Before(s.rest, p)
           left == Rstrip(head)
           rest == From(s.rest, q + 1)
<1>1. CutCComment(s) =
          IF p = 0 \/ q = 0 THEN s
          ELSE IF IsBlank(rest) THEN [kept |-> s.kept \o left, rest |-> <<>>]
          ELSE IF left # head /\ ~IsWord(Head(rest)) THEN [kept |-> s.kept \o left, rest |-> rest]
          ELSE [kept |-> s.kept \o head, rest |-> Lstrip(rest)]
    BY DEF CutCComment
<1>2. CASE p = 0 \/ q = 0
    BY <1>1, <1>2
<1>3. CASE ~(p = 0 \/ q = 0)
  <2>1. p \in Nat /\ p \in 1..Len(s.rest) /\ Len(s.rest) \in Nat
      BY <1>3, FindType, SeqHas
  <2> HIDE DEF p
  <2>2. q \in Nat
    <3>1. p + 1 \in Nat
        BY <2>1
    <3> QED
        BY <3>1, FindType
  <2> HIDE DEF q
  <2>3. IsSequence(head)
    <3>1. p <= Len(s.rest) + 1
        BY <2>1
    <3> QED
        BY <2>1, <3>1, BeforeType
  <2> HIDE DEF head
  <2>4. IsSequence(left)
      BY <2>3, RstripType
  <2> HIDE DEF left
  <2>5. IsSequence(rest)
    <3>1. q + 1 \in Nat \ {0}
        BY <2>2
    <3> QED
        BY <3>1, FromType
  <2> HIDE DEF rest
  <2>6. IsSequence(Lstrip(rest)) /\ IsSequence(s.kept \o left) /\ IsSequence(s.kept \o head)
      BY <2>3, <2>4, <2>5, LstripType, SeqJoin
  <2>7. \E kept, after : IsSequence(kept) /\ IsSequence(after) /\ CutCComment(s) = [kept |-> kept, rest |-> after]
    <3>1. \/ CutCComment(s) = [kept |-> s.kept \o left, rest |-> <<>>]
          \/ CutCComment(s) = [kept |-> s.kept \o left, rest |-> rest]
          \/ CutCComment(s) = [kept |-> s.kept \o head, rest |-> Lstrip(rest)]
        BY <1>1, <1>3, Zenon
    <3> QED
        BY <2>5, <2>6, <3>1, SeqEmpty, Zenon
  <2> QED
      BY <2>7
<1> QED
    BY <1>2, <1>3

LEMMA CutCCommentsType ==
    ASSUME NEW line, IsSequence(line)
    PROVE  IsSequence(CutCComments(line))
<1>1. PICK b : b = [kept |-> <<>>, rest |-> line]
    OBVIOUS
<1>2. PICK h : /\ h[0] = b /\ h[Len(line)] = CCommentsCut(b, line)
               /\ \A k \in 1..Len(line) : h[k] = CutCComment(h[k - 1])
    BY CCommentsCutSteps DEF IsSequence
<1> DEFINE n == Len(line)
           T == {k \in 0..n : IsSequence(h[k].kept) /\ IsSequence(h[k].rest)}
<1>3. n \in Nat
    BY SeqHas
<1>4. 0 \in T
    BY <1>1, <1>2, <1>3, SeqEmpty
<1>5. ASSUME NEW k \in 1..n, k - 1 \in T PROVE k \in T
    BY <1>2, <1>5, CutCCommentType
<1> HIDE DEF n, T
<1>6. n \in T
    BY <1>3, <1>4, <1>5, Chain
<1>7. PICK cut : cut = CCommentsCut(b, line)
    OBVIOUS
<1>8. CutCComments(line) = cut.kept \o cut.rest
    BY <1>1, <1>7 DEF CutCComments, CCommentsCut
<1> QED
    BY <1>2, <1>6, <1>7, <1>8, SeqJoin DEF n, T

LEMMA CleanseCommentsType ==
    ASSUME NEW line, IsSequence(line)
    PROVE  IsSequence(CleanseComments(line))
<1> DEFINE p == Find(line, <<"//">>, 1)
           code == Rstrip(Before(line, p))
<1>1. \/ CleanseComments(line) = CutCComments(line)
      \/ p # 0 /\ CleanseComments(line) = CutCComments(code)
    BY DEF CleanseComments
<1>2. ASSUME p # 0 PROVE IsSequence(code)
  <2>1. p \in Nat /\ p \in 1..Len(line) /\ Len(line) \in Nat
      BY <1>2, FindType, SeqHas
  <2> HIDE DEF p
  <2>2. p <= Len(line) + 1
      BY <2>1
  <2> QED
      BY <2>1, <2>2, BeforeType, RstripType
<1> HIDE DEF p, code
<1> QED
    BY <1>1, <1>2, CutCCommentsType

\* A number does not reach beyond its line.
LEMMA LiteralType ==
    ASSUME NEW line, IsSequence(line)
    PROVE  Literal(line) \in 0..Len(line)
<1> DEFINE I == {k \in 0..Len(line) : 2 * k + 2 <= Len(line) => line[2 * k + 1] # "'" \/ ~IsWord(line[2 * k + 2])}
           m == Min(I)
<1>1. Len(line) \in Nat
    BY SeqHas
<1>2. Len(line) \in I
    BY <1>1
<1>3. \A k \in 0..Len(line) : k \notin I => 2 * k + 2 <= Len(line)
    OBVIOUS
<1>4. I \in SUBSET (0..Len(line))
    OBVIOUS
<1>5. Literal(line) = 2 * m
    BY DEF Literal
<1> HIDE DEF I
<1>6. I \in SUBSET Nat
    BY <1>4
<1>7. m \in I /\ \A k \in I : m <= k
    BY <1>2, <1>6, MinIn
<1> HIDE DEF m
<1>8. m \in 0..Len(line)
    BY <1>4, <1>7
<1>9. CASE m = 0
    BY <1>1, <1>5, <1>9
<1>10. CASE m # 0
  <2>1. m - 1 \in 0..Len(line) /\ ~(m <= m - 1)
      BY <1>1, <1>8, <1>10
  <2>2. 2 * (m - 1) + 2 <= Len(line)
      BY <1>3, <1>7, <2>1
  <2> QED
      BY <1>1, <1>5, <1>8, <2>2
<1> QED
    BY <1>9, <1>10

LEMMA EmptyStringType ==
    ASSUME NEW s, IsSequence(s.collapsed), IsSequence(s.elided)
    PROVE  LET t == EmptyString(s) IN IsSequence(t.collapsed) /\ IsSequence(t.elided)
<1> DEFINE line == s.elided
           I == {i \in 1..Len(line) : line[i] \in {Q, "'"}}
           p == IF I # {} THEN Min(I) ELSE 0
           head == Before(line, p)
           tail == From(line, p + 1)
           second == Find(tail, <<line[p]>>, 1)
           digits == Literal(From(line, p))
           number == Without(SubSeq(line, p, p + digits - 1), {"'"})
<1>1. EmptyString(s) =
          IF p = 0 THEN s
          ELSE IF line[p] = "'" /\ head # <<>> /\ Last(head) = "1"
          THEN [collapsed |-> s.collapsed \o head \o number, elided |-> From(line, p + digits)]
          ELSE IF second = 0 THEN s
          ELSE [collapsed |-> s.collapsed \o head \o <<line[p], line[p]>>, elided |-> From(tail, second + 1)]
    BY DEF EmptyString, SelectInSeq
<1>2. CASE p = 0
    BY <1>1, <1>2
<1>3. CASE p # 0
  <2>1. Len(line) \in Nat
      BY SeqHas
  <2>2. I \in SUBSET (1..Len(line))
      OBVIOUS
  <2> HIDE DEF I
  <2>3. p \in 0..Len(line)
      BY <2>1, <2>2, FirstIn
  <2> HIDE DEF p
  <2>4. p \in Nat \ {0} /\ p <= Len(line) + 1 /\ p + 1 \in Nat \ {0}
      BY <1>3, <2>1, <2>3
  <2>5. IsSequence(head) /\ IsSequence(tail) /\ IsSequence(From(line, p))
      BY <2>4, BeforeType, FromType
  <2>6. Len(From(line, p)) = Len(line) - p + 1
    <3>1. PICK X : line \in Seq(X)
        BY DEF IsSequence
    <3> QED
        BY <1>3, <2>1, <2>3, <3>1 DEF From
  <2> HIDE DEF head, tail
  <2>7. digits \in 0..Len(line) - p + 1
      BY <2>5, <2>6, LiteralType
  <2> HIDE DEF digits
  <2>8. IsSequence(number)
    <3>1. p + digits - 1 \in Int /\ p + digits - 1 <= Len(line)
        BY <2>1, <2>4, <2>7
    <3>2. IsSequence(SubSeq(line, p, p + digits - 1))
        BY <2>4, <3>1, SeqPart
    <3> QED
        BY <3>2, SeqWithout
  <2> HIDE DEF number
  <2>9. IsSequence(From(line, p + digits))
    <3>1. p + digits \in Nat \ {0}
        BY <2>4, <2>7
    <3> QED
        BY <3>1, FromType
  <2>10. IsSequence(From(tail, second + 1))
    <3>1. second \in Nat
        BY <2>5, FindType
    <3> HIDE DEF second
    <3>2. second + 1 \in Nat \ {0}
        BY <3>1
    <3> QED
        BY <2>5, <3>2, FromType
  <2>11. IsSequence(s.collapsed \o head \o number) /\ IsSequence(s.collapsed \o head \o <<line[p], line[p]>>)
      BY <2>5, <2>8, SeqTwo, SeqJoin
  <2>12. CASE EmptyString(s) = s
      BY <2>12
  <2>13. CASE EmptyString(s) # s
    <3>1. \E collapsed, rest : /\ IsSequence(collapsed) /\ IsSequence(rest)
                               /\ EmptyString(s) = [collapsed |-> collapsed, elided |-> rest]
      <4>1. \/ EmptyString(s) = [collapsed |-> s.collapsed \o head \o number, elided |-> From(line, p + digits)]
            \/ EmptyString(s) = [collapsed |-> s.collapsed \o head \o <<line[p], line[p]>>,
                                 elided |-> From(tail, second + 1)]
          BY <1>1, <1>3, <2>13, Zenon
      <4> HIDE DEF line, second
      <4> QED
          BY <2>9, <2>10, <2>11, <4>1, Zenon
    <3> QED
        BY <3>1
  <2> QED
      BY <2>12, <2>13
<1> QED
    BY <1>2, <1>3

LEMMA EmptyStringsType ==
    ASSUME NEW line, IsSequence(line)
    PROVE  IsSequence(EmptyStrings(line))
<1>1. PICK b : b = [collapsed |-> <<>>, elided |-> line]
    OBVIOUS
<1>2. PICK h : /\ h[0] = b /\ h[Len(line)] = StringsEmptied(b, line)
               /\ \A k \in 1..Len(line) : h[k] = EmptyString(h[k - 1])
    BY StringsEmptiedSteps DEF IsSequence
<1> DEFINE n == Len(line)
           T == {k \in 0..n : IsSequence(h[k].collapsed) /\ IsSequence(h[k].elided)}
<1>3. n \in Nat
    BY SeqHas
<1>4. 0 \in T
    BY <1>1, <1>2, <1>3, SeqEmpty
<1>5. ASSUME NEW k \in 1..n, k - 1 \in T PROVE k \in T
    BY <1>2, <1>5, EmptyStringType
<1> HIDE DEF n, T
<1>6. n \in T
    BY <1>3, <1>4, <1>5, Chain
<1>7. PICK all : all = StringsEmptied(b, line)
    OBVIOUS
<1>8. EmptyStrings(line) = all.collapsed \o all.elided
    BY <1>1, <1>7 DEF EmptyStrings, StringsEmptied
<1> QED
    BY <1>2, <1>6, <1>7, <1>8, SeqJoin DEF n, T

LEMMA CollapseStringsType ==
    ASSUME NEW line, IsSequence(line)
    PROVE  IsSequence(CollapseStrings(line))
<1>1. CollapseStrings(line) = line \/ CollapseStrings(line) = EmptyStrings(Without(line, {EscapedQ}))
    BY DEF CollapseStrings
<1>2. IsSequence(Without(line, {EscapedQ}))
    BY SeqWithout
<1> QED
    BY <1>1, <1>2, EmptyStringsType

\* The copies of a file have a line for each of its lines,
LEMMA CleansedLinesType ==
    ASSUME NEW lines, IsText(lines)
    PROVE  LET clean == CleansedLines(lines)
           IN /\ clean.raw_lines = lines /\ IsText(clean.elided) /\ Len(clean.elided) = Len(lines)
<1>1. PICK unraw : unraw = CleanseRawStrings(lines)
    OBVIOUS
<1>2. IsText(unraw) /\ Len(unraw) = Len(lines)
    BY <1>1, CleanseRawStringsType
<1>3. PICK n \in Nat : n = Len(unraw) /\ DOMAIN unraw = 1..n
    BY <1>2, SeqHas DEF IsText
<1>4. PICK elided : elided = [i \in 1..n |-> CleanseComments(CollapseStrings(unraw[i]))]
    OBVIOUS
<1>5. IsSequence(elided) /\ Len(elided) = n
    BY <1>4, SeqMade
<1>6. \A i \in 1..n : IsSequence(elided[i])
    BY <1>2, <1>3, <1>4, CollapseStringsType, CleanseCommentsType DEF IsText
<1>7. CleansedLines(lines).raw_lines = lines /\ CleansedLines(lines).elided = elided
    BY <1>1, <1>3, <1>4 DEF CleansedLines, CopiesOf
<1> QED
    BY <1>2, <1>3, <1>5, <1>6, <1>7 DEF IsText

\* and so it is before, when carriage returns go and comments are blanked.
LEMMA WithoutReturnsType ==
    ASSUME NEW lines, IsText(lines)
    PROVE  IsText(WithoutReturns(lines)) /\ Len(WithoutReturns(lines)) = Len(lines)
<1>1. PICK n \in Nat : n = Len(lines) /\ DOMAIN lines = 1..n
    BY SeqHas DEF IsText
<1> DEFINE I(i) == {k \in 1..Len(lines[i]) : lines[i][k] # "\r"}
           last(i) == IF I(i) # {} THEN Max(I(i)) ELSE 0
<1>2. PICK text : text = [i \in 1..n |-> IF i = n THEN lines[i] ELSE SubSeq(lines[i], 1, last(i))]
    OBVIOUS
<1>3. WithoutReturns(lines) = text
    BY <1>1, <1>2 DEF WithoutReturns, SelectLastInSeq
<1>4. IsSequence(text) /\ Len(text) = n
    BY <1>2, SeqMade
<1>5. ASSUME NEW i \in 1..n PROVE IsSequence(text[i])
  <2>1. PICK line : line = lines[i]
      OBVIOUS
  <2>2. IsSequence(line) /\ Len(line) \in Nat
      BY <1>1, <2>1, SeqHas DEF IsText
  <2>3. I(i) \in SUBSET (1..Len(line))
      BY <2>1
  <2> HIDE DEF I
  <2>4. last(i) \in 0..Len(line)
      BY <2>2, <2>3, LastIn
  <2>5. text[i] = line \/ text[i] = SubSeq(line, 1, last(i))
      BY <1>2, <2>1
  <2> HIDE DEF last
  <2>6. PICK m \in Int : m = last(i) /\ m <= Len(line)
      BY <2>2, <2>4
  <2>7. IsSequence(SubSeq(line, 1, m))
      BY <2>2, <2>6, SeqPart
  <2> QED
      BY <2>2, <2>5, <2>6, <2>7
<1> QED
    BY <1>1, <1>3, <1>4, <1>5 DEF IsText

LEMMA RemoveMultiLineCommentsType ==
    ASSUME NEW lines, IsText(lines)
    PROVE  LET removed == RemoveMultiLineComments(lines)
           IN IsText(removed.lines) /\ Len(removed.lines) = Len(lines)
<1>1. PICK n \in Nat : n = Len(lines) /\ DOMAIN lines = 1..n
    BY SeqHas DEF IsText
<1>2. PICK b : b = [open |-> 0, lines |-> lines]
    OBVIOUS
<1>3. PICK is : is = [i \in DOMAIN lines |-> i]
    OBVIOUS
<1>4. IsSequence(is) /\ Len(is) = n
    BY <1>1, <1>3, SeqMade
<1>5. PICK h : /\ h[0] = b /\ h[n] = Blanked(b, lines, is)
               /\ \A k \in 1..n : h[k] = BlankedUpTo(h[k - 1], lines, is[k])
    BY <1>4, BlankedSteps DEF IsSequence
<1> DEFINE T == {k \in 0..n : IsText(h[k].lines) /\ Len(h[k].lines) = n}
<1>6. 0 \in T
    BY <1>1, <1>2, <1>5
<1>7. ASSUME NEW k \in 1..n, k - 1 \in T PROVE k \in T
  <2>1. PICK acc : acc = h[k - 1]
      OBVIOUS
  <2>2. IsText(acc.lines) /\ Len(acc.lines) = n
      BY <1>7, <2>1
  <2>3. PICK from, i : h[k].lines = acc.lines \/
            h[k].lines = [j \in DOMAIN lines |-> IF j \in from..i THEN BlankedComment ELSE acc.lines[j]]
    <3> DEFINE i == is[k]
               begin == IF acc.open # 0 THEN acc.open ELSE IF OpensComment(lines[i]) THEN i ELSE 0
    <3>1. h[k] = IF begin # 0 /\ ClosesComment(lines[i])
                 THEN [open |-> 0, lines |-> [j \in DOMAIN lines |->
                          IF j \in begin..i THEN BlankedComment ELSE acc.lines[j]]]
                 ELSE [open |-> begin, lines |-> acc.lines]
        BY <1>5, <2>1 DEF BlankedUpTo
    <3> HIDE DEF i, begin
    <3> QED
        BY <3>1
  <2>4. PICK blanked : blanked = [j \in 1..n |-> IF j \in from..i THEN BlankedComment ELSE acc.lines[j]]
      OBVIOUS
  <2>5. IsSequence(blanked) /\ Len(blanked) = n
      BY <2>4, SeqMade
  <2>6. \A j \in 1..n : IsSequence(blanked[j])
    <3>1. IsSequence(BlankedComment)
        BY SeqTwo DEF BlankedComment
    <3> QED
        BY <2>2, <2>4, <3>1 DEF IsText
  <2>7. IsText(blanked) /\ Len(blanked) = n
      BY <2>5, <2>6 DEF IsText
  <2>8. IsText(h[k].lines) /\ Len(h[k].lines) = n
      BY <1>1, <2>2, <2>3, <2>4, <2>7
  <2> QED
      BY <2>8
<1> HIDE DEF T
<1>8. n \in T
    BY <1>6, <1>7, Chain
<1>9. RemoveMultiLineComments(lines) = Blanked(b, lines, is)
    BY <1>2, <1>3 DEF RemoveMultiLineComments, Blanked, FoldLeftDomain
<1> QED
    BY <1>1, <1>5, <1>8, <1>9 DEF T

-----------------------------------------------------------------------------
(* The nesting of a file.                                                   *)

\* What is kept of an open #if, and the state of the nesting.
IsGroup(g) ==
    /\ g = [stack_before_if |-> g.stack_before_if, stack_before_else |-> g.stack_before_else,
            seen_else |-> g.seen_else]
    /\ IsSequence(g.stack_before_if) /\ IsSequence(g.stack_before_else)
AreGroups(groups) == IsSequence(groups) /\ \A i \in 1..Len(groups) : IsGroup(groups[i])
IsNesting(s) ==
    /\ s = [stack |-> s.stack, previous_stack_top |-> s.previous_stack_top, pp_stack |-> s.pp_stack]
    /\ IsSequence(s.stack) /\ AreGroups(s.pp_stack)

\* One #if more or less.
LEMMA GroupsLonger ==
    ASSUME NEW groups, AreGroups(groups), NEW g, IsGroup(g)
    PROVE  AreGroups(Append(groups, g))
<1>1. PICK X : groups \in Seq(X)
    BY DEF AreGroups, IsSequence
<1>2. PICK t : t = Append(groups, g)
    OBVIOUS
<1>3. /\ Len(t) = Len(groups) + 1 /\ Len(groups) \in Nat
      /\ \A i \in 1..Len(groups) : t[i] = groups[i]
      /\ t[Len(groups) + 1] = g
    BY <1>1, <1>2
<1>4. IsSequence(t)
    BY <1>2, SeqAppend DEF AreGroups
<1>5. \A i \in 1..Len(t) : IsGroup(t[i])
  <2>1. \A i \in 1..Len(t) : i \in 1..Len(groups) \/ i = Len(groups) + 1
      BY <1>3
  <2> QED
      BY <1>3, <2>1 DEF AreGroups
<1> QED
    BY <1>2, <1>4, <1>5 DEF AreGroups

LEMMA GroupsFront ==
    ASSUME NEW groups, AreGroups(groups), groups # <<>>
    PROVE  AreGroups(Front(groups)) /\ IsGroup(Last(groups))
<1>1. PICK X : groups \in Seq(X)
    BY DEF AreGroups, IsSequence
<1>2. PICK t : t = Front(groups)
    OBVIOUS
<1>3. PICK m \in Nat : Len(groups) = m + 1
  <2>1. Len(groups) \in Nat /\ Len(groups) # 0
      BY <1>1
  <2> QED
      BY <2>1
<1>4. Len(t) = m /\ \A i \in 1..m : t[i] = groups[i]
  <2>1. t = SubSeq(groups, 1, m)
      BY <1>2, <1>3 DEF Front
  <2>2. SubSeq(groups, 1, m) = [i \in 1..m |-> groups[i]]
      BY <1>1, <1>3
  <2>3. t = [i \in 1..m |-> groups[i]]
      BY <2>1, <2>2
  <2> QED
      BY <1>1, <1>3, <2>1, <2>3
<1>5. \A i \in 1..Len(t) : i \in 1..Len(groups)
    BY <1>3, <1>4
<1>6. IsSequence(t)
    BY <1>2, SeqFront DEF AreGroups
<1>7. Len(groups) \in 1..Len(groups)
    BY <1>3
<1> QED
    BY <1>2, <1>4, <1>5, <1>6, <1>7 DEF AreGroups, Last

\* Every step of NestingState.Update leaves a stack, and errors that are a sequence.
LEMMA SetTopType ==
    ASSUME NEW stack, IsSequence(stack), NEW block
    PROVE  IsSequence(SetTop(stack, block))
BY SeqFront, SeqAppend DEF SetTop

LEMMA UpdatePreprocessorType ==
    ASSUME NEW s, IsNesting(s), NEW line
    PROVE  IsNesting(UpdatePreprocessor(s, line))
<1> DEFINE directive == Directive(line)
           top == Last(s.pp_stack)
           taken == IF top.seen_else THEN top
                    ELSE [top EXCEPT !.seen_else = TRUE, !.stack_before_else = s.stack]
<1>1. CASE directive = "if"
  <2>1. PICK g : g = PreprocessorInfo(s.stack)
      OBVIOUS
  <2>2. IsGroup(g)
      BY <2>1, SeqEmpty DEF PreprocessorInfo, IsGroup, IsNesting
  <2>3. PICK groups : groups = Append(s.pp_stack, g)
      OBVIOUS
  <2>4. AreGroups(groups)
      BY <2>2, <2>3, GroupsLonger DEF IsNesting
  <2>5. UpdatePreprocessor(s, line) = [s EXCEPT !.pp_stack = groups]
      BY <1>1, <2>1, <2>3 DEF UpdatePreprocessor
  <2> QED
      BY <2>4, <2>5 DEF IsNesting
<1>2. CASE directive = "else" /\ s.pp_stack # <<>>
  <2>1. AreGroups(Front(s.pp_stack)) /\ IsGroup(top)
      BY <1>2, GroupsFront DEF IsNesting
  <2>2. PICK t : t = top
      OBVIOUS
  <2>3. PICK stack : stack = s.stack /\ IsSequence(stack)
      BY DEF IsNesting
  <2>4. PICK g : g = taken
      OBVIOUS
  <2>5. g = IF t.seen_else THEN t ELSE [t EXCEPT !.seen_else = TRUE, !.stack_before_else = stack]
      BY <2>2, <2>3, <2>4
  <2>6. IsGroup(t)
      BY <2>1, <2>2
  <2>7. IsGroup(g)
      BY <2>3, <2>5, <2>6 DEF IsGroup
  <2>8. PICK groups : groups = SetTop(s.pp_stack, g)
      OBVIOUS
  <2>9. AreGroups(groups)
      BY <2>1, <2>7, <2>8, GroupsLonger DEF SetTop
  <2>10. UpdatePreprocessor(s, line) = [s EXCEPT !.pp_stack = groups, !.stack = t.stack_before_if]
      BY <1>2, <2>2, <2>4, <2>8 DEF UpdatePreprocessor
  <2>11. IsSequence(t.stack_before_if)
      BY <2>6 DEF IsGroup
  <2> QED
      BY <2>9, <2>10, <2>11 DEF IsNesting
<1>3. CASE directive = "endif" /\ s.pp_stack # <<>>
  <2>1. PICK groups : groups = Front(s.pp_stack)
      OBVIOUS
  <2>2. AreGroups(groups) /\ IsGroup(top)
      BY <1>3, <2>1, GroupsFront DEF IsNesting
  <2>3. PICK stack : stack = IF top.seen_else THEN top.stack_before_else ELSE s.stack
      OBVIOUS
  <2>4. IsSequence(stack)
      BY <2>2, <2>3 DEF IsGroup, IsNesting
  <2>5. UpdatePreprocessor(s, line) = [s EXCEPT !.pp_stack = groups, !.stack = stack]
      BY <1>3, <2>1, <2>3 DEF UpdatePreprocessor
  <2> QED
      BY <2>2, <2>4, <2>5 DEF IsNesting
<1>4. CASE /\ directive # "if" /\ ~(directive = "else" /\ s.pp_stack # <<>>)
           /\ ~(directive = "endif" /\ s.pp_stack # <<>>)
  <2>1. UpdatePreprocessor(s, line) = s
      BY <1>4 DEF UpdatePreprocessor
  <2> QED
      BY <2>1
<1> QED
    BY <1>1, <1>2, <1>3, <1>4

LEMMA CountParenthesesType ==
    ASSUME NEW stack, IsSequence(stack), NEW line
    PROVE  IsSequence(CountParentheses(stack, line))
<1>1. \E block : CountParentheses(stack, line) = stack \/ CountParentheses(stack, line) = SetTop(stack, block)
  <2> DEFINE change == Count(line, "(") - Count(line, ")")
             top == [Last(stack) EXCEPT !.open_parentheses = @ + change]
             asm == IF top.inline_asm \in {NO_ASM, END_ASM}
                    THEN IF change # 0 /\ top.open_parentheses = 1 /\ MatchAsm(line) THEN INSIDE_ASM ELSE NO_ASM
                    ELSE IF top.inline_asm = INSIDE_ASM /\ top.open_parentheses = 0 THEN END_ASM
                    ELSE top.inline_asm
             block == [top EXCEPT !.inline_asm = asm]
  <2>1. CountParentheses(stack, line) = IF stack = <<>> THEN stack ELSE SetTop(stack, block)
      BY DEF CountParentheses
  <2> HIDE DEF block
  <2> QED
      BY <2>1
<1> QED
    BY <1>1, SetTopType

LEMMA NextNamespaceType ==
    ASSUME NEW s, IsSequence(s.opened), IsSequence(s.rest)
    PROVE  LET t == NextNamespace(s) IN IsSequence(t.opened) /\ IsSequence(t.rest)
<1> DEFINE l == Lstrip(s.rest)
           named == Len(l) > 1 /\ IsWord(l[2])
           tail == From(l, IF named THEN 3 ELSE 2)
           brace == Find(tail, <<"{">>, 1)
           space == [name |-> IF named THEN l[2] ELSE "", seen |-> brace # 0]
<1>1. NextNamespace(s) = IF l = <<>> \/ Head(l) # "namespace" THEN s
                         ELSE [opened |-> Append(s.opened, space), rest |-> From(tail, brace + 1)]
    BY DEF NextNamespace
<1>2. IsSequence(l)
    BY LstripType
<1> HIDE DEF l
<1>3. IsSequence(tail)
  <2>1. (IF named THEN 3 ELSE 2) \in Nat \ {0}
      OBVIOUS
  <2> QED
      BY <1>2, <2>1, FromType
<1> HIDE DEF tail, space
<1>4. brace + 1 \in Nat \ {0}
  <2>1. brace \in Nat
      BY <1>3, FindType
  <2> HIDE DEF brace
  <2> QED
      BY <2>1
<1> HIDE DEF brace
<1>5. IsSequence(From(tail, brace + 1)) /\ IsSequence(Append(s.opened, space))
    BY <1>3, <1>4, FromType, SeqAppend
<1>6. PICK opened, rest : opened = Append(s.opened, space) /\ rest = From(tail, brace + 1)
    OBVIOUS
<1>7. IsSequence(opened) /\ IsSequence(rest)
    BY <1>5, <1>6
<1>8. CASE l = <<>> \/ Head(l) # "namespace"
  <2>1. NextNamespace(s) = s
      BY <1>1, <1>8
  <2> QED
      BY <2>1
<1>9. CASE ~(l = <<>> \/ Head(l) # "namespace")
  <2>1. NextNamespace(s) = [opened |-> opened, rest |-> rest]
      BY <1>1, <1>6, <1>9
  <2> QED
      BY <1>7, <2>1
<1> QED
    BY <1>8, <1>9

LEMMA NamespacesType ==
    ASSUME NEW line, IsSequence(line)
    PROVE  LET read == Namespaces(line) IN IsSequence(read.opened) /\ IsSequence(read.rest)
<1>1. PICK b : b = [opened |-> <<>>, rest |-> line]
    OBVIOUS
<1>2. PICK h : /\ h[0] = b /\ h[Len(line)] = NamespacesRead(b, line)
               /\ \A k \in 1..Len(line) : h[k] = NextNamespace(h[k - 1])
    BY NamespacesReadSteps DEF IsSequence
<1> DEFINE n == Len(line)
           T == {k \in 0..n : IsSequence(h[k].opened) /\ IsSequence(h[k].rest)}
<1>3. n \in Nat
    BY SeqHas
<1>4. 0 \in T
    BY <1>1, <1>2, <1>3, SeqEmpty
<1>5. ASSUME NEW k \in 1..n, k - 1 \in T PROVE k \in T
    BY <1>2, <1>5, NextNamespaceType
<1> HIDE DEF n, T
<1>6. n \in T
    BY <1>3, <1>4, <1>5, Chain
<1>7. Namespaces(line) = NamespacesRead(b, line)
    BY <1>1 DEF Namespaces, NamespacesRead
<1> QED
    BY <1>2, <1>6, <1>7 DEF n, T

LEMMA PushNamespacesType ==
    ASSUME NEW stack, IsSequence(stack), NEW opened, IsSequence(opened), NEW n
    PROVE  IsSequence(PushNamespaces(stack, opened, n))
<1>1. PICK k \in Nat : DOMAIN opened = 1..k
    BY SeqHas
<1>2. PICK blocks : blocks = [i \in 1..k |-> [BlockInfo("namespace", n, opened[i].seen) EXCEPT !.name = opened[i].name]]
    OBVIOUS
<1>3. blocks = [i \in 1..k |-> blocks[i]]
    BY <1>2
<1>4. IsSequence(blocks)
    BY <1>3, SeqMade
<1>5. PushNamespaces(stack, opened, n) = stack \o blocks
    BY <1>1, <1>2 DEF PushNamespaces
<1> QED
    BY <1>4, <1>5, SeqJoin

LEMMA ClassNameType ==
    ASSUME NEW line, IsSequence(line)
    PROVE  ClassName(line) \in Nat
<1> DEFINE is(i) == i + 1 <= Len(line) /\ line[i] \in {"class", "struct"} /\ IsWord(line[i + 1])
           start == Indent(line) + 1
           inner == {">", "<", ",", ":", "=", " "}
           ends == {j \in start + 2..Len(line) :
                       /\ StandsAt(line, <<"template", "<">>, start)
                       /\ line[j] = ">" /\ is(j + 1)
                       /\ \A k \in start + 2..j : line[k] \in inner \/ IsWord(line[k])}
<1>1. ClassName(line) = IF is(start) THEN start + 1 ELSE IF ends # {} THEN Max(ends) + 2 ELSE 0
    BY DEF ClassName
<1>2. start \in Nat /\ Len(line) \in Nat
    BY IndentType, SeqHas
<1>3. ends \in SUBSET (start + 2..Len(line))
    OBVIOUS
<1> HIDE DEF is, start, ends
<1>4. ends \in SUBSET (1..Len(line))
    BY <1>2, <1>3
<1>5. CASE ends # {}
  <2>1. PICK m : m = Max(ends)
      OBVIOUS
  <2>2. m \in ends
      BY <1>2, <1>4, <1>5, <2>1, MaxIn
  <2>3. m \in Nat
      BY <1>2, <1>4, <2>2
  <2>4. ClassName(line) = IF is(start) THEN start + 1 ELSE m + 2
      BY <1>1, <1>5, <2>1
  <2> QED
      BY <1>2, <2>3, <2>4
<1>6. CASE ends = {}
    BY <1>1, <1>2, <1>6
<1> QED
    BY <1>5, <1>6

LEMMA PushClassType ==
    ASSUME NEW stack, IsSequence(stack), NEW line, IsSequence(line), NEW clean, NEW n
    PROVE  LET class == PushClass(stack, line, clean, n) IN IsSequence(class.stack) /\ IsSequence(class.rest)
<1> DEFINE end == ClassName(line)
           free == stack = <<>> \/ Last(stack).open_parentheses = 0
           block == [BlockInfo("class", n, FALSE) EXCEPT
                        !.name = line[end], !.class_indent = Indent(clean.raw_lines[n])]
<1>1. PushClass(stack, line, clean, n) =
          IF end = 0 \/ ~free \/ InTemplateArguments(clean.elided, n, end + 1)
          THEN [stack |-> stack, rest |-> line]
          ELSE [stack |-> Append(stack, block), rest |-> From(line, end + 1)]
    BY DEF PushClass
<1> HIDE DEF free, block
<1>2. end + 1 \in Nat \ {0}
    BY ClassNameType
<1> HIDE DEF end
<1>3. PICK longer, rest : longer = Append(stack, block) /\ rest = From(line, end + 1)
    OBVIOUS
<1>4. IsSequence(longer) /\ IsSequence(rest)
    BY <1>2, <1>3, FromType, SeqAppend
<1>5. \/ PushClass(stack, line, clean, n) = [stack |-> stack, rest |-> line]
      \/ PushClass(stack, line, clean, n) = [stack |-> longer, rest |-> rest]
    BY <1>1, <1>3
<1> QED
    BY <1>4, <1>5

LEMMA CheckEndType == ASSUME NEW block, NEW clean, NEW n PROVE IsSequence(CheckEnd(block, clean, n))
<1>1. IsSequence(NamespaceEnd(block, clean, n))
    BY SeqEmpty, SeqOne DEF NamespaceEnd
<1>2. IsSequence(ClassEnd(block, clean, n))
  <2>1. PICK a, b : ClassEnd(block, clean, n) = a \o b /\ IsSequence(a) /\ IsSequence(b)
      BY SeqEmpty, SeqOne DEF ClassEnd
  <2> QED
      BY <2>1, SeqJoin
<1>3. CASE block.kind = "namespace"
    BY <1>1, <1>3 DEF CheckEnd
<1>4. CASE block.kind = "class"
    BY <1>2, <1>4 DEF CheckEnd
<1>5. CASE block.kind # "namespace" /\ block.kind # "class"
    BY <1>5, SeqEmpty DEF CheckEnd
<1> QED
    BY <1>3, <1>4, <1>5

LEMMA ConsumeBraceType ==
    ASSUME NEW acc, IsSequence(acc.stack), IsSequence(acc.errors), NEW i, NEW line, NEW clean, NEW n
    PROVE  LET after == ConsumeBrace(acc, i, line, clean, n)
           IN IsSequence(after.stack) /\ IsSequence(after.errors)
<1> DEFINE matched == SubSeq(line, acc.from, i)
           next(s, errors) == [stack |-> s, from |-> i + 1, errors |-> acc.errors \o errors]
           asm == IF MatchAsm(From(line, acc.from)) THEN BLOCK_ASM ELSE NO_ASM
           seen == [Last(acc.stack) EXCEPT !.seen_open_brace = TRUE]
           block == IF matched = <<"extern", Q, Q, "{">> THEN BlockInfo("externC", n, TRUE)
                    ELSE [BlockInfo("block", n, TRUE) EXCEPT !.inline_asm = asm]
           after == ConsumeBrace(acc, i, line, clean, n)
<1>0. ASSUME NEW s, IsSequence(s), NEW errors, IsSequence(errors)
      PROVE  IsSequence(next(s, errors).stack) /\ IsSequence(next(s, errors).errors)
    BY <1>0, SeqJoin
<1>1. CASE line[i] = "{" /\ ~SeenOpenBrace(acc.stack)
  <2>1. after = next(SetTop(acc.stack, seen), <<>>)
      BY <1>1 DEF ConsumeBrace
  <2> HIDE DEF next, seen, after
  <2> QED
      BY <1>0, <2>1, SetTopType, SeqEmpty DEF after
<1>2. CASE line[i] = "{" /\ SeenOpenBrace(acc.stack)
  <2>1. after = next(Append(acc.stack, block), <<>>)
      BY <1>2 DEF ConsumeBrace
  <2> HIDE DEF next, block, after
  <2> QED
      BY <1>0, <2>1, SeqAppend, SeqEmpty DEF after
<1>3. CASE line[i] \in {";", ")"}
  <2>1. after = next(IF SeenOpenBrace(acc.stack) THEN acc.stack ELSE Front(acc.stack), <<>>)
      BY <1>3 DEF ConsumeBrace
  <2>2. IsSequence(IF SeenOpenBrace(acc.stack) THEN acc.stack ELSE Front(acc.stack))
      BY SeqFront
  <2> HIDE DEF next, after
  <2> QED
      BY <1>0, <2>1, <2>2, SeqEmpty DEF after
<1>4. CASE line[i] = "}" /\ acc.stack # <<>>
  <2>1. after = next(Front(acc.stack), CheckEnd(Last(acc.stack), clean, n))
      BY <1>4 DEF ConsumeBrace
  <2> HIDE DEF next, after
  <2> QED
      BY <1>0, <2>1, SeqFront, CheckEndType DEF after
<1>5. CASE line[i] = "}" /\ acc.stack = <<>>
  <2>1. after = next(acc.stack, <<>>)
      BY <1>5 DEF ConsumeBrace
  <2> HIDE DEF next, after
  <2> QED
      BY <1>0, <2>1, SeqEmpty DEF after
<1>6. CASE line[i] \notin {"{", "}", ";", ")"}
  <2>1. after = acc
      BY <1>6 DEF ConsumeBrace
  <2> QED
      BY <2>1
<1> QED
    BY <1>1, <1>2, <1>3, <1>4, <1>5, <1>6

LEMMA ConsumeBracesType ==
    ASSUME NEW stack, IsSequence(stack), NEW line, IsSequence(line), NEW clean, NEW n
    PROVE  LET braces == ConsumeBraces(stack, line, clean, n)
           IN IsSequence(braces.stack) /\ IsSequence(braces.errors)
<1>1. PICK m \in Nat : DOMAIN line = 1..m
    BY SeqHas
<1>2. PICK b : b = [stack |-> stack, from |-> 1, errors |-> <<>>]
    OBVIOUS
<1>3. PICK is : is = [i \in DOMAIN line |-> i]
    OBVIOUS
<1>4. IsSequence(is) /\ Len(is) = m
    BY <1>1, <1>3, SeqMade
<1>5. PICK h : /\ h[0] = b /\ h[m] = BracesConsumed(b, is, line, clean, n)
               /\ \A k \in 1..m : h[k] = ConsumeBrace(h[k - 1], is[k], line, clean, n)
  <2>1. is \in Seq(ToSet(is))
      BY <1>4 DEF IsSequence
  <2>2. \E h : /\ h[0] = b /\ h[Len(is)] = BracesConsumed(b, is, line, clean, n)
               /\ \A k \in 1..Len(is) : h[k] = ConsumeBrace(h[k - 1], is[k], line, clean, n)
      BY <2>1, BracesConsumedSteps
  <2> QED
      BY <1>4, <2>2
<1> DEFINE T == {k \in 0..m : IsSequence(h[k].stack) /\ IsSequence(h[k].errors)}
<1>6. 0 \in T
    BY <1>2, <1>5, SeqEmpty
<1>7. ASSUME NEW k \in 1..m, k - 1 \in T PROVE k \in T
    BY <1>5, <1>7, ConsumeBraceType
<1> HIDE DEF T
<1>8. m \in T
    BY <1>6, <1>7, Chain
<1>9. ConsumeBraces(stack, line, clean, n) = BracesConsumed(b, is, line, clean, n)
    BY <1>2, <1>3 DEF ConsumeBraces, BracesConsumed, FoldLeftDomain
<1> QED
    BY <1>5, <1>8, <1>9 DEF T

\* Update as a whole.
LEMMA UpdateType ==
    ASSUME NEW s, IsNesting(s), NEW clean, NEW n, IsSequence(clean.elided[n])
    PROVE  LET update == Update(s, clean, n) IN IsNesting(update.nesting) /\ IsSequence(update.errors)
<1>1. PICK line : line = clean.elided[n] /\ IsSequence(line)
    OBVIOUS
<1>2. PICK top : top = Top(s.stack)
    OBVIOUS
<1>3. PICK p : p = [s EXCEPT !.previous_stack_top = top]
    OBVIOUS
<1>4. IsNesting(p)
    BY <1>3 DEF IsNesting
<1>5. PICK q : q = UpdatePreprocessor(p, line)
    OBVIOUS
<1>6. IsNesting(q)
    BY <1>4, <1>5, UpdatePreprocessorType
<1>7. PICK spaces : spaces = Namespaces(line)
    OBVIOUS
<1>8. IsSequence(spaces.opened) /\ IsSequence(spaces.rest)
    BY <1>1, <1>7, NamespacesType
<1>9. PICK pushed : pushed = PushNamespaces(CountParentheses(q.stack, line), spaces.opened, n)
    OBVIOUS
<1>10. IsSequence(pushed)
    BY <1>6, <1>8, <1>9, CountParenthesesType, PushNamespacesType DEF IsNesting
<1>11. PICK class : class = PushClass(pushed, spaces.rest, clean, n)
    OBVIOUS
<1>12. IsSequence(class.stack) /\ IsSequence(class.rest)
    BY <1>8, <1>10, <1>11, PushClassType
<1>13. PICK braces : braces = ConsumeBraces(class.stack, class.rest, clean, n)
    OBVIOUS
<1>14. IsSequence(braces.stack) /\ IsSequence(braces.errors)
    BY <1>12, <1>13, ConsumeBracesType
<1>15. PICK access : access = AccessErrors(class.stack, class.rest, n)
    OBVIOUS
<1>16. IsSequence(access)
    BY <1>15, SeqEmpty, SeqOne DEF AccessErrors
<1>17. Update(s, clean, n) = [nesting |-> [q EXCEPT !.stack = braces.stack], errors |-> access \o braces.errors]
    BY <1>1, <1>2, <1>3, <1>5, <1>7, <1>9, <1>11, <1>13, <1>15 DEF Update, UpdateBlocks, UpdateBraces
<1>18. PICK stack, errors : stack = braces.stack /\ errors = access \o braces.errors
    OBVIOUS
<1>19. PICK nesting : nesting = [q EXCEPT !.stack = stack]
    OBVIOUS
<1>20. IsNesting(nesting)
    BY <1>6, <1>14, <1>18, <1>19 DEF IsNesting
<1>21. IsSequence(errors)
    BY <1>14, <1>16, <1>18, SeqJoin
<1>22. Update(s, clean, n) = [nesting |-> nesting, errors |-> errors]
    BY <1>17, <1>18, <1>19
<1> QED
    BY <1>20, <1>21, <1>22

\* The blocks that are open at the end give a sequence of errors.
LEMMA CheckCompletedBlocksType ==
    ASSUME NEW s, IsSequence(s.stack)
    PROVE  IsSequence(CheckCompletedBlocks(s))
<1>1. PICK stack : stack = s.stack /\ IsSequence(stack)
    OBVIOUS
<1>2. PICK b : b = <<>>
    OBVIOUS
<1>3. PICK h : /\ h[0] = b /\ h[Len(stack)] = Completed(b, stack)
               /\ \A k \in 1..Len(stack) : h[k] = WithIncomplete(h[k - 1], stack[k])
    BY <1>1, CompletedSteps DEF IsSequence
<1> DEFINE n == Len(stack)
           T == {k \in 0..n : IsSequence(h[k])}
<1>4. n \in Nat
    BY <1>1, SeqHas
<1>5. 0 \in T
    BY <1>2, <1>3, <1>4, SeqEmpty
<1>6. ASSUME NEW k \in 1..n, k - 1 \in T PROVE k \in T
  <2>1. PICK errors : errors = h[k - 1] /\ IsSequence(errors)
      BY <1>6
  <2>2. PICK block : block = stack[k]
      OBVIOUS
  <2>3. h[k] = errors \/ \E e : h[k] = Append(errors, e)
    <3>1. CASE block.kind = "class"
        BY <1>3, <2>1, <2>2, <3>1 DEF WithIncomplete
    <3>2. CASE block.kind = "namespace"
        BY <1>3, <2>1, <2>2, <3>2 DEF WithIncomplete
    <3>3. CASE block.kind # "class" /\ block.kind # "namespace"
        BY <1>3, <2>1, <2>2, <3>3 DEF WithIncomplete
    <3> QED
        BY <3>1, <3>2, <3>3
  <2>4. IsSequence(h[k])
    <3>1. CASE h[k] = errors
        BY <2>1, <3>1
    <3>2. CASE h[k] # errors
      <4>1. PICK e : h[k] = Append(errors, e)
          BY <2>3, <3>2
      <4>2. IsSequence(Append(errors, e))
          BY <2>1, SeqAppend
      <4> QED
          BY <4>1, <4>2
    <3> QED
        BY <3>1, <3>2
  <2>5. k \in 0..n
      BY <1>4
  <2> QED
      BY <2>4, <2>5
<1> HIDE DEF n, T
<1>7. n \in T
    BY <1>4, <1>5, <1>6, Chain
<1>8. CheckCompletedBlocks(s) = Completed(b, stack)
    BY <1>1, <1>2 DEF CheckCompletedBlocks, Completed
<1> QED
    BY <1>3, <1>7, <1>8 DEF n, T

-----------------------------------------------------------------------------
(* The errors of a file.                                                    *)

\* What was found and what was shown of a file.
IsJudge(j) ==
    /\ j = [suppressed |-> j.suppressed, everywhere |-> j.everywhere, found |-> j.found, printed |-> j.printed]
    /\ IsSequence(j.printed)

\* Nothing is shown at the start. An error, a NOLINT comment and the check of header
\* guards leave what was shown a sequence.
LEMMA NoErrorsType == IsJudge(NoErrors) /\ NoErrors.printed = <<>>
BY SeqEmpty DEF NoErrors, IsJudge

LEMMA ErrorType ==
    ASSUME NEW j, IsJudge(j), NEW o, NEW e
    PROVE  IsJudge(Error(j, o, e))
<1>1. PICK found : found = Append(j.found, e)
    OBVIOUS
<1>2. PICK printed : printed = IF ShouldPrintError(j, o, e) THEN Append(j.printed, e) ELSE j.printed
    OBVIOUS
<1>3. IsSequence(printed)
  <2>1. IsSequence(j.printed) /\ IsSequence(Append(j.printed, e))
      BY SeqAppend DEF IsJudge
  <2> QED
      BY <1>2, <2>1
<1>4. Error(j, o, e) = [j EXCEPT !.found = found, !.printed = printed]
    BY <1>1, <1>2 DEF Error
<1> QED
    BY <1>3, <1>4 DEF IsJudge

LEMMA ErrorsType ==
    ASSUME NEW j, IsJudge(j), NEW o, NEW errors, IsSequence(errors)
    PROVE  IsJudge(Errors(j, o, errors))
<1>1. PICK h : /\ h[0] = j /\ h[Len(errors)] = Errors(j, o, errors)
               /\ \A k \in 1..Len(errors) : h[k] = Error(h[k - 1], o, errors[k])
    BY ErrorsSteps DEF IsSequence
<1> DEFINE n == Len(errors)
           T == {k \in 0..n : IsJudge(h[k])}
<1>2. n \in Nat
    BY SeqHas
<1>3. 0 \in T
    BY <1>1, <1>2
<1>4. ASSUME NEW k \in 1..n, k - 1 \in T PROVE k \in T
    BY <1>1, <1>2, <1>4, ErrorType
<1> HIDE DEF n, T
<1>5. n \in T
    BY <1>2, <1>3, <1>4, Chain
<1> QED
    BY <1>1, <1>5 DEF n, T

LEMMA ParseNolintSuppressionsType ==
    ASSUME NEW j, IsJudge(j), NEW o, NEW line, NEW n
    PROVE  IsJudge(ParseNolintSuppressions(j, o, line, n))
<1> DEFINE i == SelectInSeq(line, LAMBDA t : t \in {"NOLINT", "NOLINTNEXTLINE"})
           suppressed_line == IF line[i] = "NOLINT" THEN n ELSE n + 1
           named == i + 3 <= Len(line) /\ line[i + 1] = "(" /\ line[i + 3] = ")"
           category == IF named THEN line[i + 2] ELSE "*"
           more == j.suppressed \cup {<<category, suppressed_line>>}
           unknown == Error(j, o, Report(n, "readability/nolint", 5))
<1>1. ParseNolintSuppressions(j, o, line, n) =
          IF i = 0 THEN j
          ELSE IF category \in Categories \cup {"*"} THEN [j EXCEPT !.suppressed = more]
          ELSE IF category \in LegacyCategories THEN j ELSE unknown
    BY DEF ParseNolintSuppressions
<1>2. IsJudge(unknown)
    BY ErrorType
<1> HIDE DEF i, category, more, unknown
<1>3. PICK suppressed : suppressed = more
    OBVIOUS
<1>4. PICK k : k = [j EXCEPT !.suppressed = suppressed]
    OBVIOUS
<1>5. IsJudge(k)
    BY <1>4 DEF IsJudge
<1>6. \/ ParseNolintSuppressions(j, o, line, n) = j
      \/ ParseNolintSuppressions(j, o, line, n) = k
      \/ ParseNolintSuppressions(j, o, line, n) = unknown
    BY <1>1, <1>3, <1>4, Zenon
<1> QED
    BY <1>2, <1>5, <1>6, Zenon

LEMMA ProcessGlobalSuppresionsType ==
    ASSUME NEW j, IsJudge(j), NEW lines
    PROVE  IsJudge(ProcessGlobalSuppresions(j, lines))
<1>1. PICK everywhere : everywhere = j.everywhere \cup {"whitespace/tab"}
    OBVIOUS
<1>2. PICK k : k = [j EXCEPT !.everywhere = everywhere]
    OBVIOUS
<1>3. IsJudge(k)
    BY <1>2 DEF IsJudge
<1>4. ProcessGlobalSuppresions(j, lines) = j \/ ProcessGlobalSuppresions(j, lines) = k
    BY <1>1, <1>2, Zenon DEF ProcessGlobalSuppresions
<1> QED
    BY <1>3, <1>4, Zenon

LEMMA EndifErrorsType ==
    ASSUME NEW j, IsJudge(j), NEW o, NEW lines, NEW guard
    PROVE  IsJudge(EndifErrors(j, o, lines, guard))
<1> DEFINE n == SelectLastInSeq(lines, LAMBDA l : l # <<>> /\ Head(l) = "#endif")
           nolint == IF n = 0 THEN j ELSE ParseNolintSuppressions(j, o, lines[n], n)
           lenient == Error(nolint, o, GuardReport(n, 0))
           strict == Error(nolint, o, GuardReport(n, 5))
<1>1. IsJudge(nolint)
    BY ParseNolintSuppressionsType
<1> HIDE DEF nolint
<1>2. IsJudge(lenient) /\ IsJudge(strict)
    BY <1>1, ErrorType
<1> HIDE DEF n, lenient, strict
<1>3. EndifErrors(j, o, lines, guard) \in {nolint, lenient, strict}
  <2> DEFINE words == IF n = 0 THEN <<>> ELSE Words(lines[n])
             says(name) ==
                \/ IsPrefix(<<"#endif", "//", name>>, words)
                \/ /\ IsPrefix(<<"#endif", "/*", name, "*/">>, words)
                   /\ \A i \in DOMAIN lines : ~InLineComment(lines[i])
             first == says(guard)
             second == says(Deprecated(guard))
  <2>1. EndifErrors(j, o, lines, guard) = CASE first -> nolint
                                            [] ~first /\ second -> lenient
                                            [] OTHER -> strict
      BY DEF EndifErrors, n, nolint, lenient, strict
  <2> HIDE DEF first, second
  <2>2. CASE first
      BY <2>1, <2>2
  <2>3. CASE ~first /\ second
      BY <2>1, <2>3
  <2>4. CASE ~first /\ ~second
      BY <2>1, <2>4
  <2> QED
      BY <2>2, <2>3, <2>4
<1> QED
    BY <1>1, <1>2, <1>3, Zenon

LEMMA CheckForHeaderGuardType ==
    ASSUME NEW j, IsJudge(j), NEW o, NEW info, NEW lines
    PROVE  IsJudge(CheckForHeaderGuard(j, o, info, lines))
<1> DEFINE guard == Guard(info, o)
           ifndef == FirstDirective(lines, "#ifndef")
           define == FirstDirective(lines, "#define")
           name == Words(lines[ifndef])[2]
           nolint == ParseNolintSuppressions(j, o, lines[ifndef], ifndef)
           none == Error(j, o, GuardReport(0, 5))
           same == EndifErrors(j, o, lines, guard)
           wrong == Error(nolint, o, GuardReport(ifndef, IF name = Deprecated(guard) THEN 0 ELSE 5))
           other == EndifErrors(wrong, o, lines, guard)
           given == \E i \in DOMAIN lines :
              \/ Find(Words(lines[i]), <<"//", "NOLINT", "(", "build/header_guard", ")">>, 1) # 0
              \/ IsPrefix(<<"#pragma", "once">>, Words(lines[i]))
<1>1. CheckForHeaderGuard(j, o, info, lines) =
          IF given THEN j ELSE IF ifndef = 0 \/ define = 0 THEN none
          ELSE IF name # Words(lines[define])[2] THEN none
          ELSE IF name = guard THEN same ELSE other
    BY DEF CheckForHeaderGuard
<1>2. IsJudge(none) /\ IsJudge(same)
    BY ErrorType, EndifErrorsType
<1>3. IsJudge(nolint)
    BY ParseNolintSuppressionsType
<1> HIDE DEF nolint
<1>4. IsJudge(wrong)
    BY <1>3, ErrorType
<1> HIDE DEF wrong
<1>5. IsJudge(other)
    BY <1>4, EndifErrorsType
<1> HIDE DEF none, same, other, given, name, ifndef, define, guard
<1>6. CheckForHeaderGuard(j, o, info, lines) \in {j, none, same, other}
    BY <1>1, Zenon
<1> QED
    BY <1>2, <1>5, <1>6, Zenon

-----------------------------------------------------------------------------
(* The checks give sequences of errors.                                     *)

\* An error that is reported on a condition.
LEMMA SeqIf == ASSUME NEW c, NEW e PROVE IsSequence(IF c THEN <<e>> ELSE <<>>) /\ IsSequence(IF c THEN <<>> ELSE <<e>>)
BY SeqEmpty, SeqOne

\* An error for each element of a sequence.
LEMMA SeqOver ==
    ASSUME NEW s, IsSequence(s), NEW f, f = [i \in DOMAIN s |-> f[i]]
    PROVE  IsSequence(f)
<1>1. PICK n \in Nat : DOMAIN s = 1..n
    BY SeqHas
<1> QED
    BY <1>1, SeqMade

\* Each check of a line gives a sequence of errors,
LEMMA FunctionErrorsType ==
    ASSUME NEW f, NEW lines, NEW verbose, NEW n
    PROVE  IsSequence(CheckForFunctionLengths(f, lines, verbose, n).errors)
<1> DEFINE name == FunctionName(lines[n])
           body == BodyLine(lines, n)
           check == Check(f, verbose, n)
           begun == IF IsDeclaration(lines[body]) THEN f ELSE Begin(name = "TEST")
           counted == IF IsBlank(lines[n]) THEN f ELSE Count1(f)
           ended == [f EXCEPT !.in_a_function = FALSE]
           closes == Rstrip(lines[n]) = <<"}">>
           all == CheckForFunctionLengths(f, lines, verbose, n)
<1>1. all = IF name # ""
            THEN IF body = 0 THEN [state |-> f, errors |-> FnSize(n, 5)]
                 ELSE [state |-> begun, errors |-> <<>>]
            ELSE IF closes THEN [state |-> ended, errors |-> check]
            ELSE [state |-> counted, errors |-> <<>>]
    BY DEF CheckForFunctionLengths
<1>2. IsSequence(check) /\ IsSequence(FnSize(n, 5)) /\ IsSequence(<<>>)
  <2>1. \A confidence : IsSequence(FnSize(n, confidence))
      BY SeqOne DEF FnSize
  <2> QED
      BY <2>1, SeqEmpty DEF Check
<1> HIDE DEF name, body, check, begun, counted, ended, closes, all
<1>3. PICK size : size = FnSize(n, 5)
    OBVIOUS
<1>4. \E state : \/ all = [state |-> state, errors |-> size]
                 \/ all = [state |-> state, errors |-> <<>>]
                 \/ all = [state |-> state, errors |-> check]
    BY <1>1, <1>3, Zenon
<1>5. all.errors = size \/ all.errors = <<>> \/ all.errors = check
    BY <1>4
<1>6. IsSequence(all.errors)
    BY <1>2, <1>3, <1>5, Zenon
<1> QED
    BY <1>6 DEF all

LEMMA LineErrorsType ==
    ASSUME NEW line, NEW n
    PROVE  /\ IsSequence(CheckForMultilineCommentsAndStrings(line, n)) /\ IsSequence(FlagCxx11Features(line, n))
           /\ \A s, elided : IsSequence(CheckForNamespaceIndentation(s, elided, n))
<1>1. IsSequence(CheckForMultilineCommentsAndStrings(line, n))
  <2>1. \E a, b : CheckForMultilineCommentsAndStrings(line, n) = a \o b /\ IsSequence(a) /\ IsSequence(b)
      BY SeqIf DEF CheckForMultilineCommentsAndStrings
  <2> QED
      BY <2>1, SeqJoin
<1>2. IsSequence(FlagCxx11Features(line, n))
    BY SeqOne, SeqEmpty DEF FlagCxx11Features
<1>3. ASSUME NEW s, NEW elided PROVE IsSequence(CheckForNamespaceIndentation(s, elided, n))
    BY SeqIf DEF CheckForNamespaceIndentation
<1> QED
    BY <1>1, <1>2, <1>3

LEMMA StyleErrorsType == ASSUME NEW f, NEW o PROVE IsSequence(CheckStyle(f, o))
<1>1. \E a, b, c, d : /\ CheckStyle(f, o) = a \o b \o c \o d
                      /\ IsSequence(a) /\ IsSequence(b) /\ IsSequence(c) /\ IsSequence(d)
  <2> DEFINE n == f.n
             raw == f.clean.lines_without_raw_strings
             line == raw[n]
             prev == IF n > 1 THEN Rstrip(raw[n - 1]) ELSE <<>>
             guard == IF f.info.ext \in GetHeaderExtensions(o) THEN Guard(f.info, o) ELSE ""
             in_raw_string == f.clean.raw_lines[n] # line /\ IsPrefix(<<Q, Q>>, Lstrip(line))
             tab == "\t" \in ToSet(line)
             indent == /\ ~(prev # <<>> /\ Last(prev) \in {Q, "=", ">", "<"})
                       /\ Indent(line) \in {1, 3} /\ ~Label(f.clean.elided[n]) /\ ~in_raw_string
             blank == line # <<>> /\ Last(line) \in {" ", "\t", "\r"}
             long == ~MayBeLong(line, guard) /\ Len(line) > o.line_length
             error(condition, category, confidence) ==
                IF condition THEN <<Report(n, category, confidence)>> ELSE <<>>
             all == CheckStyle(f, o)
  <2>1. all = error(tab, "whitespace/tab", 1) \o error(indent, "whitespace/indent", 3)
              \o error(blank, "whitespace/end_of_line", 4) \o error(long, "whitespace/line_length", 2)
      BY DEF CheckStyle
  <2>2. /\ IsSequence(error(tab, "whitespace/tab", 1)) /\ IsSequence(error(indent, "whitespace/indent", 3))
        /\ IsSequence(error(blank, "whitespace/end_of_line", 4))
        /\ IsSequence(error(long, "whitespace/line_length", 2))
      BY SeqIf
  <2> HIDE DEF error, tab, indent, blank, long, all
  <2>3. \E a, b, c, d : /\ all = a \o b \o c \o d
                        /\ IsSequence(a) /\ IsSequence(b) /\ IsSequence(c) /\ IsSequence(d)
      BY <2>1, <2>2, Zenon
  <2> QED
      BY <2>3 DEF all
<1>2. PICK a, b, c, d : /\ CheckStyle(f, o) = a \o b \o c \o d
                        /\ IsSequence(a) /\ IsSequence(b) /\ IsSequence(c) /\ IsSequence(d)
    BY <1>1
<1>3. IsSequence(a \o b)
    BY <1>2, SeqJoin
<1>4. IsSequence(a \o b \o c)
    BY <1>2, <1>3, SeqJoin
<1>5. IsSequence(a \o b \o c \o d)
    BY <1>2, <1>4, SeqJoin
<1> QED
    BY <1>2, <1>5

LEMMA IncludeErrorsType ==
    ASSUME NEW s, NEW info, NEW exts, NEW clean, NEW n
    PROVE  IsSequence(CheckIncludeLine(s, info, exts, clean, n).errors)
<1> DEFINE all == CheckIncludeLine(s, info, exts, clean, n)
<1>1. \A category : IsSequence(IncludeReport(n, category))
    BY SeqOne DEF IncludeReport
<1>2. \A c, category : /\ IsSequence(IF c THEN IncludeReport(n, category) ELSE <<>>)
                       /\ IsSequence(IF c THEN <<>> ELSE IncludeReport(n, category))
    BY <1>1, SeqEmpty
<1>3. \E subdir, order, alpha, state :
         /\ \/ all = [state |-> s, errors |-> subdir \o IncludeReport(n, "build/include")]
            \/ all = [state |-> s, errors |-> subdir]
            \/ all = [state |-> state, errors |-> subdir \o order \o alpha]
         /\ IsSequence(subdir) /\ IsSequence(order) /\ IsSequence(alpha)
  <2> DEFINE line == clean.lines[n]
             include == Lstrip(line)[3]
             h == Headers[include]
             subdir == IF Subdirless(line) THEN IncludeReport(n, "build/include_subdir") ELSE <<>>
             foreign == h.ext \in exts.all \ exts.header /\ h.dir # info.dir
             third == h.third /\ ~(h.ext = exts.first /\ Within(include, info))
             listed == [s EXCEPT !.include_list =
                           Append(Front(@), Append(Last(@), [header |-> include, line |-> n]))]
             next == CheckNextIncludeOrder(listed, ClassifyInclude(info, include, Lstrip(line)[2] = "<"))
             alphabetical == IsInAlphabeticalOrder(next.state, include, clean.elided, n)
             order == IF next.ok THEN <<>> ELSE IncludeReport(n, "build/include_order")
             alpha == IF alphabetical THEN <<>> ELSE IncludeReport(n, "build/include_alpha")
             state == [next.state EXCEPT !.last_header = h.rank]
             known == FindHeader(s, include) \/ foreign
  <2>1. all = IF known THEN [state |-> s, errors |-> subdir \o IncludeReport(n, "build/include")]
              ELSE IF third THEN [state |-> s, errors |-> subdir]
              ELSE [state |-> state, errors |-> subdir \o order \o alpha]
      BY DEF CheckIncludeLine
  <2>2. IsSequence(subdir) /\ IsSequence(order) /\ IsSequence(alpha)
      BY <1>2
  <2> HIDE DEF known, third, state, subdir, order, alpha, all
  <2> QED
      BY <2>1, <2>2, Zenon
<1>4. PICK subdir, order, alpha, state :
         /\ \/ all = [state |-> s, errors |-> subdir \o IncludeReport(n, "build/include")]
            \/ all = [state |-> s, errors |-> subdir]
            \/ all = [state |-> state, errors |-> subdir \o order \o alpha]
         /\ IsSequence(subdir) /\ IsSequence(order) /\ IsSequence(alpha)
    BY <1>3
<1>5. IsSequence(subdir \o IncludeReport(n, "build/include"))
    BY <1>1, <1>4, SeqJoin
<1>6. IsSequence(subdir \o order \o alpha)
  <2>1. IsSequence(subdir \o order)
      BY <1>4, SeqJoin
  <2> QED
      BY <1>4, <2>1, SeqJoin
<1> HIDE DEF all
<1>7. PICK one, three : one = subdir \o IncludeReport(n, "build/include") /\ three = subdir \o order \o alpha
    OBVIOUS
<1>8. all.errors = one \/ all.errors = subdir \/ all.errors = three
    BY <1>4, <1>7
<1>9. IsSequence(all.errors)
    BY <1>4, <1>5, <1>6, <1>7, <1>8, Zenon
<1> QED
    BY <1>9 DEF all

LEMMA LanguageErrorsType == ASSUME NEW f, NEW o PROVE IsSequence(CheckLanguage(f, o).errors)
<1> DEFINE line == f.clean.elided[f.n]
           directive == Directive(line)
           state == IF directive = "none" THEN f.include ELSE ResetSection(f.include, directive)
           errors == IF {"short", "long"} \cap ToSet(line) = {} THEN <<>> ELSE <<Report(f.n, "runtime/int", 4)>>
           include == CheckIncludeLine(f.include, f.info, Extensions(o), f.clean, f.n)
<1>1. CheckLanguage(f, o) = IF line = <<>> THEN [state |-> f.include, errors |-> <<>>]
                            ELSE IF IsInclude(line) THEN include ELSE [state |-> state, errors |-> errors]
    BY DEF CheckLanguage
<1>2. IsSequence(errors) /\ IsSequence(include.errors) /\ IsSequence(<<>>)
    BY SeqIf, SeqEmpty, IncludeErrorsType
<1> HIDE DEF line, state, errors, include
<1>3. CASE line = <<>>
    BY <1>1, <1>2, <1>3
<1>4. CASE line # <<>> /\ IsInclude(line)
    BY <1>1, <1>2, <1>4
<1>5. CASE line # <<>> /\ ~IsInclude(line)
  <2>1. CheckLanguage(f, o) = [state |-> state, errors |-> errors]
      BY <1>1, <1>5
  <2> QED
      BY <1>2, <2>1
<1> QED
    BY <1>3, <1>4, <1>5

\* and so does each check after the lines.
LEMMA EndErrorsType ==
    ASSUME NEW s, NEW info, NEW exts, NEW elided, IsSequence(elided), IsSequence(info.own)
    PROVE  IsSequence(CheckForIncludeWhatYouUse(s, info, exts, elided)) /\ IsSequence(CheckHeaderFileIncluded(s, info))
<1>1. PICK n \in Nat : DOMAIN elided = 1..n
    BY SeqHas
<1>2. IsSequence(CheckForIncludeWhatYouUse(s, info, exts, elided))
  <2>1. PICK is : is = [i \in DOMAIN elided |-> i]
      OBVIOUS
  <2>2. IsSequence(is)
      BY <2>1, SeqOver
  <2>3. \E out, f : \/ CheckForIncludeWhatYouUse(s, info, exts, elided) = <<>>
                    \/ /\ CheckForIncludeWhatYouUse(s, info, exts, elided) = f
                       /\ f = [i \in DOMAIN Without(is, out) |-> f[i]]
    <3> DEFINE included == {f.header : f \in Listed(s.include_list)}
               opened == {h \in included : FilesBelongToSameModule(info, h, exts) /\ Headers[h].exists}
               known == included \cup UNION {Headers[h].includes : h \in opened}
               needed == {Required[name].header : name \in DOMAIN Required}
               missing == {h \in needed : Uses(elided, h) # {} /\ h \notin known}
               last_uses == {Max(Uses(elided, h)) : h \in missing}
               out == DOMAIN elided \ last_uses
               lines == Without(is, out)
               f == [i \in DOMAIN lines |->
                       [line |-> lines[i], category |-> "build/include_what_you_use", confidence |-> 4]]
               own == opened = {} /\ info.ext \in exts.all \ exts.header
    <3>1. CheckForIncludeWhatYouUse(s, info, exts, elided) = IF own THEN <<>> ELSE f
        BY <2>1 DEF CheckForIncludeWhatYouUse
    <3>2. f = [i \in DOMAIN Without(is, out) |-> f[i]]
        OBVIOUS
    <3> HIDE DEF f, out, own
    <3> QED
        BY <3>1, <3>2, Zenon
  <2>4. PICK out, f : \/ CheckForIncludeWhatYouUse(s, info, exts, elided) = <<>>
                      \/ /\ CheckForIncludeWhatYouUse(s, info, exts, elided) = f
                         /\ f = [i \in DOMAIN Without(is, out) |-> f[i]]
      BY <2>3
  <2>5. IsSequence(Without(is, out))
      BY <2>2, SeqWithout
  <2> QED
      BY <2>4, <2>5, SeqEmpty, SeqOver
<1>3. IsSequence(CheckHeaderFileIncluded(s, info))
  <2>1. PICK own : own = info.own /\ IsSequence(own)
      OBVIOUS
  <2>2. Len(own) \in Nat
      BY <2>1, SeqHas
  <2> DEFINE all == FlattenSeq(s.include_list)
             I == {i \in 1..Len(own) : \E f \in ToSet(all) : Within(own[i], Headers[f.header])
                                                          /\ Headers[own[i]].ext = Headers[f.header].ext}
             found == IF I # {} THEN Min(I) ELSE 0
             missing == IF found = 0 THEN own ELSE SubSeq(own, 1, found - 1)
             first == IF all = <<>> THEN 0 ELSE Head(all).line
             f == [i \in DOMAIN missing |-> [line |-> first, category |-> "build/include", confidence |-> 5]]
  <2>3. CheckHeaderFileIncluded(s, info) = IF info.test THEN <<>> ELSE f
      BY <2>1 DEF CheckHeaderFileIncluded, SelectInSeq
  <2>4. I \in SUBSET (1..Len(own))
      OBVIOUS
  <2> HIDE DEF I
  <2>5. found \in 0..Len(own)
      BY <2>2, <2>4, FirstIn
  <2> HIDE DEF found
  <2>6. IsSequence(missing)
    <3>1. found - 1 \in Int /\ found - 1 <= Len(own)
        BY <2>2, <2>5
    <3> QED
        BY <2>1, <3>1, SeqPart
  <2> HIDE DEF missing, first
  <2>7. IsSequence(f)
      BY <2>6, SeqOver
  <2> HIDE DEF f
  <2> QED
      BY <2>3, <2>7, SeqEmpty
<1> QED
    BY <1>2, <1>3

LEMMA RawErrorsType ==
    ASSUME NEW lines, IsSequence(lines)
    PROVE  /\ IsSequence(CheckForBadCharacters(lines)) /\ IsSequence(CheckForNewlineAtEOF(lines))
           /\ IsSequence(MixedNewlines(lines))
<1>1. PICK n \in Nat : DOMAIN lines = 1..n /\ Len(lines) = n
    BY SeqHas
<1>2. IsSequence(CheckForBadCharacters(lines))
  <2>1. PICK is : is = [i \in DOMAIN lines |-> i]
      OBVIOUS
  <2>2. IsSequence(is)
      BY <2>1, SeqOver
  <2>3. PICK bad : bad = Without(is, {i \in DOMAIN lines : "NUL" \notin ToSet(lines[i])})
      OBVIOUS
  <2>4. IsSequence(bad)
      BY <2>2, <2>3, SeqWithout
  <2>5. CheckForBadCharacters(lines) = [k \in DOMAIN bad |-> Report(bad[k], "readability/nul", 5)]
      BY <2>1, <2>3 DEF CheckForBadCharacters
  <2> QED
      BY <2>4, <2>5, SeqOver
<1>3. IsSequence(CheckForNewlineAtEOF(lines))
    BY SeqIf DEF CheckForNewlineAtEOF
<1>4. IsSequence(MixedNewlines(lines))
  <2>1. PICK ended : ended = [i \in 1..Len(lines) - 1 |-> i]
      OBVIOUS
  <2>2. IsSequence(ended)
    <3>1. CASE n = 0
      <4>1. 1..Len(lines) - 1 = 1..0
          BY <1>1, <3>1
      <4>2. ended = [i \in 1..0 |-> ended[i]]
          BY <2>1, <4>1
      <4> QED
          BY <4>2, SeqMade
    <3>2. CASE n # 0
      <4>1. PICK m \in Nat : m = n - 1
          BY <1>1, <3>2
      <4>2. ended = [i \in 1..m |-> ended[i]]
          BY <1>1, <2>1, <4>1
      <4> QED
          BY <4>1, <4>2, SeqMade
    <3> QED
        BY <3>1, <3>2
  <2>3. PICK crlf : crlf = Without(ended, {i \in DOMAIN lines : lines[i] = <<>> \/ Last(lines[i]) # "\r"})
      OBVIOUS
  <2>4. IsSequence(crlf)
      BY <2>2, <2>3, SeqWithout
  <2>5. PICK f : f = [k \in DOMAIN crlf |-> Report(crlf[k], "whitespace/newline", 1)]
      OBVIOUS
  <2>6. IsSequence(f)
      BY <2>4, <2>5, SeqOver
  <2>7. MixedNewlines(lines) = IF Len(crlf) = Len(ended) THEN <<>> ELSE f
      BY <2>1, <2>3, <2>5 DEF MixedNewlines
  <2> QED
      BY <2>6, <2>7, SeqEmpty
<1> QED
    BY <1>2, <1>3, <1>4

-----------------------------------------------------------------------------
(* A file with all that its checks read.                                    *)

\* The file with its copies, its nesting and its errors. A check asks only for lines
\* that are there, as long as the file has not come to its end.
Typed(f) ==
    /\ IsFile(f) /\ IsText(f.lines) /\ IsJudge(f.judge) /\ IsNesting(f.nesting) /\ IsSequence(f.info.own)
    /\ f.n \in Nat \ {0} /\ IsSequence(f.clean.raw_lines)
    /\ IsText(f.clean.elided) /\ Len(f.clean.elided) = Len(f.lines)

\* Such is a file when it is prepared,
LEMMA PreparedType ==
    ASSUME NEW o, NEW info, IsSequence(info.own), NEW lines, IsText(lines)
    PROVE  Typed(Prepared(o, info, lines))
<1>1. PICK text : text = WithoutReturns(lines)
    OBVIOUS
<1>2. IsText(text) /\ Len(text) = Len(lines)
    BY <1>1, WithoutReturnsType
<1>3. PICK removed : removed = RemoveMultiLineComments(text)
    OBVIOUS
<1>4. IsText(removed.lines) /\ Len(removed.lines) = Len(lines)
    BY <1>2, <1>3, RemoveMultiLineCommentsType
<1>5. PICK whole : whole = removed.lines /\ IsText(whole) /\ Len(whole) = Len(lines)
    BY <1>4
<1>6. PICK clean : clean = CleansedLines(whole)
    OBVIOUS
<1>7. clean.raw_lines = whole /\ IsText(clean.elided) /\ Len(clean.elided) = Len(whole)
    BY <1>5, <1>6, CleansedLinesType
<1>8. PICK j : j = CheckForCopyright(NoErrors, o, text) /\ IsJudge(j)
    BY NoErrorsType, ErrorType DEF CheckForCopyright
<1>9. PICK k : k = ProcessGlobalSuppresions(j, text) /\ IsJudge(k)
    BY <1>8, ProcessGlobalSuppresionsType
<1>10. IsSequence(CommentErrors(removed))
    BY SeqOne, SeqEmpty DEF CommentErrors
<1>11. PICK l : l = Errors(k, o, CommentErrors(removed)) /\ IsJudge(l)
    BY <1>9, <1>10, ErrorsType
<1>12. PICK m : m = Guarded(l, o, info, clean) /\ IsJudge(m)
    BY <1>11, CheckForHeaderGuardType DEF Guarded
<1>13. PICK f : f = Prepared(o, info, lines)
    OBVIOUS
<1>14. f = [info |-> info, lines |-> lines, n |-> 1, clean |-> clean, judge |-> m,
            include |-> IncludeState, function |-> FunctionState, nesting |-> NestingState]
    BY <1>1, <1>3, <1>5, <1>6, <1>8, <1>9, <1>11, <1>12, <1>13 DEF Prepared, PreparedText, FileOf
<1>15. IsNesting(NestingState)
  <2>1. PICK none : none = <<>>
      OBVIOUS
  <2>2. PICK top : top = NoTop
      OBVIOUS
  <2>3. PICK s : s = [stack |-> none, previous_stack_top |-> top, pp_stack |-> none]
      OBVIOUS
  <2>4. NestingState = s
      BY <2>1, <2>2, <2>3 DEF NestingState
  <2>5. IsSequence(none) /\ AreGroups(none)
      BY <2>1, SeqEmpty DEF AreGroups
  <2>6. IsNesting(s)
      BY <2>3, <2>5 DEF IsNesting
  <2> QED
      BY <2>4, <2>6
<1>16. PICK nesting : nesting = NestingState /\ IsNesting(nesting)
    BY <1>15
<1>17. PICK include, function : include = IncludeState /\ function = FunctionState
    OBVIOUS
<1>18. f = [info |-> info, lines |-> lines, n |-> 1, clean |-> clean, judge |-> m,
            include |-> include, function |-> function, nesting |-> nesting]
    BY <1>14, <1>16, <1>17
<1>19. /\ IsFile(f) /\ f.lines = lines /\ f.judge = m /\ f.nesting = nesting /\ f.info = info /\ f.n = 1
       /\ f.clean = clean
    BY <1>18 DEF IsFile
<1>20. IsSequence(f.clean.raw_lines)
    BY <1>5, <1>7, <1>19 DEF IsText
<1>21. Typed(f)
    BY <1>5, <1>7, <1>12, <1>16, <1>19, <1>20 DEF Typed
<1> QED
    BY <1>13, <1>21

\* A file with another judge, nesting and other state of checks.
LEMMA StillTyped ==
    ASSUME NEW f, Typed(f), NEW j, IsJudge(j), NEW nesting, IsNesting(nesting), NEW include, NEW function,
           NEW n \in Nat \ {0}, NEW g,
           g = [info |-> f.info, lines |-> f.lines, n |-> n, clean |-> f.clean, judge |-> j,
                include |-> include, function |-> function, nesting |-> nesting]
    PROVE  Typed(g) /\ g.info = f.info
<1>1. /\ IsFile(g) /\ g.lines = f.lines /\ g.judge = j /\ g.nesting = nesting /\ g.info = f.info /\ g.n = n
      /\ g.clean = f.clean
    BY DEF IsFile
<1> QED
    BY <1>1 DEF Typed

\* and after every line,
LEMMA ProcessedType ==
    ASSUME NEW f, Typed(f), f.n <= Len(f.lines), NEW o
    PROVE  Typed(ProcessedLine(f, o)) /\ ProcessedLine(f, o).info = f.info
<1>1. PICK n \in Nat \ {0} : n = f.n
    BY DEF Typed
<1>2. n \in 1..Len(f.clean.elided)
  <2>1. Len(f.lines) \in Nat
      BY SeqHas DEF Typed, IsText
  <2> QED
      BY <1>1, <2>1 DEF Typed
<1>3. PICK line : line = f.clean.elided[n] /\ IsSequence(line)
    BY <1>2 DEF Typed, IsText
<1>4. PICK nolint : nolint = ParseNolintSuppressions(f.judge, o, f.clean.raw_lines[n], n) /\ IsJudge(nolint)
    BY ParseNolintSuppressionsType DEF Typed
<1>5. PICK update : update = Update(f.nesting, f.clean, n)
    OBVIOUS
<1>6. IsNesting(update.nesting) /\ IsSequence(update.errors)
    BY <1>3, <1>5, UpdateType DEF Typed
<1>7. PICK nesting : nesting = update.nesting /\ IsNesting(nesting)
    BY <1>6
<1>8. PICK indented : indented = CheckForNamespaceIndentation(nesting, f.clean.elided, n) /\ IsSequence(indented)
    BY LineErrorsType
<1>9. IsSequence(update.errors \o indented)
    BY <1>6, <1>8, SeqJoin
<1>10. PICK blocks : blocks = Errors(nolint, o, update.errors \o indented) /\ IsJudge(blocks)
    BY <1>4, <1>9, ErrorsType
<1>11. PICK nested : nested = [f EXCEPT !.nesting = nesting]
    OBVIOUS
<1>12. nested = [info |-> f.info, lines |-> f.lines, n |-> n, clean |-> f.clean, judge |-> f.judge,
                 include |-> f.include, function |-> f.function, nesting |-> nesting]
    BY <1>1, <1>11 DEF Typed, IsFile
<1>13. PICK language : language = CheckLanguage(f, o) /\ IsSequence(language.errors)
    BY LanguageErrorsType
<1>14. PICK function : /\ function = CheckForFunctionLengths(f.function, f.clean.lines, o.verbose_level, n)
                       /\ IsSequence(function.errors)
    BY FunctionErrorsType
<1>15. PICK errors : errors = function.errors \o CheckForMultilineCommentsAndStrings(line, n)
                                 \o CheckStyle(nested, o) \o language.errors
    OBVIOUS
<1>16. IsSequence(errors)
  <2>1. IsSequence(CheckForMultilineCommentsAndStrings(line, n)) /\ IsSequence(CheckStyle(nested, o))
      BY LineErrorsType, StyleErrorsType
  <2>2. IsSequence(function.errors \o CheckForMultilineCommentsAndStrings(line, n))
      BY <1>14, <2>1, SeqJoin
  <2>3. IsSequence(function.errors \o CheckForMultilineCommentsAndStrings(line, n) \o CheckStyle(nested, o))
      BY <2>1, <2>2, SeqJoin
  <2> QED
      BY <1>13, <1>15, <2>3, SeqJoin
<1>17. PICK judge : judge = Errors(blocks, o, errors) /\ IsJudge(judge)
    BY <1>10, <1>16, ErrorsType
<1>18. PICK cxx : cxx = FlagCxx11Features(line, n) /\ IsSequence(cxx)
    BY LineErrorsType
<1>19. PICK g : g = NestedLine(f, o, nolint, update)
    OBVIOUS
<1>20. ProcessedLine(f, o) = [g EXCEPT !.n = g.n + 1, !.judge = Errors(g.judge, o, cxx)]
    BY <1>1, <1>3, <1>4, <1>5, <1>18, <1>19 DEF ProcessedLine
<1>21. \E j, include, fun : /\ IsJudge(j)
                            /\ g = [info |-> f.info, lines |-> f.lines, n |-> n, clean |-> f.clean, judge |-> j,
                                    include |-> include, function |-> fun, nesting |-> nesting]
  <2>1. CASE InAsmBlock(nesting)
    <3>1. g = [f EXCEPT !.nesting = nesting, !.judge = blocks]
        BY <1>1, <1>7, <1>8, <1>10, <1>19, <2>1 DEF NestedLine
    <3>2. g = [info |-> f.info, lines |-> f.lines, n |-> n, clean |-> f.clean, judge |-> blocks,
               include |-> f.include, function |-> f.function, nesting |-> nesting]
        BY <1>1, <3>1 DEF Typed, IsFile
    <3> QED
        BY <1>10, <3>2
  <2>2. CASE ~InAsmBlock(nesting)
    <3>1. g = CheckedLine(nested, o, blocks, function, language)
        BY <1>1, <1>7, <1>8, <1>10, <1>11, <1>13, <1>14, <1>19, <2>2 DEF NestedLine
    <3>2. nested.n = n /\ nested.clean = f.clean
        BY <1>12
    <3>3. PICK fun, include : fun = function.state /\ include = language.state
        OBVIOUS
    <3>4. g = [nested EXCEPT !.function = fun, !.include = include, !.judge = judge]
        BY <1>3, <1>15, <1>17, <3>1, <3>2, <3>3 DEF CheckedLine
    <3>5. g = [info |-> f.info, lines |-> f.lines, n |-> n, clean |-> f.clean, judge |-> judge,
               include |-> include, function |-> fun, nesting |-> nesting]
        BY <1>12, <3>4
    <3> QED
        BY <1>17, <3>5
  <2> QED
      BY <2>1, <2>2
<1>22. PICK j, include, fun : /\ IsJudge(j)
                              /\ g = [info |-> f.info, lines |-> f.lines, n |-> n, clean |-> f.clean, judge |-> j,
                                      include |-> include, function |-> fun, nesting |-> nesting]
    BY <1>21
<1>23. PICK last : last = Errors(j, o, cxx) /\ IsJudge(last)
    BY <1>18, <1>22, ErrorsType
<1>24. PICK h : h = ProcessedLine(f, o)
    OBVIOUS
<1>25. g.judge = j /\ g.n = n
    BY <1>22
<1>26. h = [g EXCEPT !.n = n + 1, !.judge = last]
    BY <1>20, <1>23, <1>24, <1>25
<1>27. h = [info |-> f.info, lines |-> f.lines, n |-> n + 1, clean |-> f.clean, judge |-> last,
            include |-> include, function |-> fun, nesting |-> nesting]
    BY <1>22, <1>26
<1>28. PICK m \in Nat \ {0} : m = n + 1
    OBVIOUS
<1>29. Typed(h) /\ h.info = f.info
    BY <1>7, <1>23, <1>27, <1>28, StillTyped
<1> QED
    BY <1>24, <1>29

\* and what is said of it in the end is a sequence.
LEMMA FinishedType ==
    ASSUME NEW f, Typed(f), NEW o
    PROVE  IsJudge(Finished(f, o))
<1>1. PICK exts : exts = Extensions(o)
    OBVIOUS
<1>2. PICK a : a = CheckCompletedBlocks(f.nesting) /\ IsSequence(a)
  <2>1. IsSequence(f.nesting.stack)
      BY DEF Typed, IsNesting
  <2> QED
      BY <2>1, CheckCompletedBlocksType
<1>3. PICK elided : elided = f.clean.elided /\ IsSequence(elided)
    BY DEF Typed, IsText
<1>4. PICK b : b = CheckForIncludeWhatYouUse(f.include, f.info, exts, elided) /\ IsSequence(b)
    BY <1>3, EndErrorsType DEF Typed
<1>5. PICK c : /\ c = IF f.info.ext \in exts.all \ exts.header THEN CheckHeaderFileIncluded(f.include, f.info) ELSE <<>>
               /\ IsSequence(c)
    BY <1>3, EndErrorsType, SeqEmpty DEF Typed
<1>6. PICK d, e, g : /\ d = CheckForBadCharacters(f.clean.raw_lines) /\ e = CheckForNewlineAtEOF(f.clean.raw_lines)
                     /\ g = MixedNewlines(f.lines)
                     /\ IsSequence(d) /\ IsSequence(e) /\ IsSequence(g)
    BY RawErrorsType DEF Typed, IsText
<1>7. IsSequence(a \o b \o c \o d \o e \o g)
  <2>1. IsSequence(a \o b)
      BY <1>2, <1>4, SeqJoin
  <2>2. IsSequence(a \o b \o c)
      BY <1>5, <2>1, SeqJoin
  <2>3. IsSequence(a \o b \o c \o d)
      BY <1>6, <2>2, SeqJoin
  <2>4. IsSequence(a \o b \o c \o d \o e)
      BY <1>6, <2>3, SeqJoin
  <2> QED
      BY <1>6, <2>4, SeqJoin
<1>8. Finished(f, o) = Errors(f.judge, o, a \o b \o c \o d \o e \o g)
    BY <1>1, <1>2, <1>3, <1>4, <1>5, <1>6 DEF Finished
<1> QED
    BY <1>7, <1>8, ErrorsType DEF Typed

-----------------------------------------------------------------------------
(* What is owed and what is counted.                                        *)

\* The hook's own options.
HookSettings == <<[name |-> "extensions", val |-> HookExtensions], [name |-> "linelength", val |-> HookLineLength]>>

\* The arguments of cpplint.py are those of the command line or the hook's.
CommandInv ==
    /\ pc = "hook" => World.hook # "none"
    /\ pc = "hook" \/ World.hook = "none" => command = World.command
    /\ World.hook # "none" /\ pc \in {"arguments", "main", "line"} =>
          command.settings = HookSettings /\ ~command.recursive

\* No file that is to be judged is lost from the queue.
NoneLost == \A f \in Asked : Fits(f) /\ ~NeverJudged(f) => f \in ToSet(queue) \/ HasJudged(f)

\* The count is that of the errors shown, as far as it is used.
CountsShown(count) == count \in Nat /\ (count = 0 <=> ~Shown)

\* The invariant for AcceptedIsClean, with RunInv. Until a file is finished the count
\* is ahead of what the finished files show by what this one has shown.
CleanInv ==
    /\ CommandInv
    /\ pc \in {"main", "line"} => NoneLost
    /\ pc = "main" => CountsShown(error_count)
    /\ pc = "line" => /\ Typed(file) /\ error_count \in Int
                      /\ CountsShown(error_count - Len(file.judge.printed))
    /\ AcceptedIsClean

-----------------------------------------------------------------------------
(* Sequences of names.                                                      *)

\* Leaving out names keeps the others.
LEMMA WithoutKeeps ==
    ASSUME NEW X, NEW s \in Seq(X), NEW out, NEW e \in ToSet(s), e \notin out
    PROVE  e \in ToSet(Without(s, out))
<1>1. PICK h : /\ h[0] = <<>> /\ h[Len(s)] = Without(s, out)
               /\ \A k \in 1..Len(s) : h[k] = Kept(h[k - 1], s[k], out)
    BY WithoutSteps
<1>2. PICK at \in 1..Len(s) : s[at] = e
    BY DEF ToSet
<1> DEFINE n == Len(s)
           T == {k \in 0..n : h[k] \in Seq(X) /\ (at <= k => e \in ToSet(h[k]))}
<1>3. n \in Nat
    OBVIOUS
<1>4. 0 \in T
  <2>1. <<>> \in Seq(X) /\ 0 \in 0..n /\ ~(at <= 0)
      BY <1>3
  <2> QED
      BY <1>1, <2>1
<1>5. ASSUME NEW k \in 1..n, k - 1 \in T PROVE k \in T
  <2>1. PICK t : t = h[k - 1]
      OBVIOUS
  <2>2. t \in Seq(X) /\ (at <= k - 1 => e \in ToSet(t)) /\ s[k] \in X /\ k \in 0..n
      BY <1>5, <2>1
  <2>3. h[k] = IF s[k] \in out THEN t ELSE Append(t, s[k])
      BY <1>1, <2>1 DEF Kept
  <2>4. PICK u : u = Append(t, s[k])
      OBVIOUS
  <2>5. u \in Seq(X) /\ ToSet(u) = ToSet(t) \cup {s[k]}
    <3>1. /\ u \in Seq(X) /\ Len(u) = Len(t) + 1 /\ u[Len(t) + 1] = s[k] /\ Len(t) \in Nat
          /\ \A i \in 1..Len(t) : u[i] = t[i]
        BY <2>2, <2>4
    <3>2. DOMAIN u = 1..Len(t) + 1 /\ DOMAIN t = 1..Len(t)
        BY <2>2, <3>1
    <3>3. \A i \in 1..Len(t) + 1 : i \in 1..Len(t) \/ i = Len(t) + 1
        BY <3>1
    <3>4. \A i \in 1..Len(t) : i \in 1..Len(t) + 1
        BY <3>1
    <3>5. Len(t) + 1 \in 1..Len(t) + 1
        BY <3>1
    <3> QED
        BY <3>1, <3>2, <3>3, <3>4, <3>5 DEF ToSet
  <2>6. CASE s[k] \in out
    <3>1. h[k] = t /\ at # k
        BY <1>2, <2>3, <2>6
    <3>2. at <= k => at <= k - 1
        BY <1>3, <3>1
    <3> QED
        BY <2>2, <3>1, <3>2
  <2>7. CASE s[k] \notin out
    <3>1. h[k] = u
        BY <2>3, <2>4, <2>7
    <3>2. ASSUME at <= k PROVE at <= k - 1 \/ e = s[k]
        BY <1>2, <1>3, <3>2
    <3> QED
        BY <2>2, <2>5, <3>1, <3>2
  <2> QED
      BY <2>6, <2>7
<1> HIDE DEF n, T
<1>6. n \in T
    BY <1>3, <1>4, <1>5, Chain
<1>7. at <= n
    BY DEF n
<1> QED
    BY <1>1, <1>6, <1>7 DEF n, T

\* An order of a set has all of it.
LEMMA OrderHasAll ==
    ASSUME NEW S, IsFiniteSet(S), NEW s \in SetToSeqs(S), NEW e \in S
    PROVE  s \in Seq(S) /\ e \in ToSet(s)
<1> DEFINE n == Cardinality(S)
<1>1. n \in Nat
    BY FS_CardinalityType
<1>2. s \in [1..n -> S] /\ \A i, j \in 1..n : i # j => s[i] # s[j]
    BY DEF SetToSeqs
<1>3. IsFiniteSet(1..n) /\ Cardinality(1..n) = n
  <2> HIDE DEF n
  <2> QED
      BY <1>1, FS_Interval
<1>4. IsFiniteSet(S \ {e}) /\ Cardinality(S \ {e}) = n - 1
    BY FS_RemoveElement
<1> HIDE DEF n
<1>5. ASSUME e \notin ToSet(s) PROVE FALSE
  <2>1. s \in [1..n -> S \ {e}]
      BY <1>2, <1>5 DEF ToSet
  <2>2. Cardinality(S \ {e}) < Cardinality(1..n)
      BY <1>1, <1>3, <1>4
  <2>3. \E i, j \in 1..n : i # j /\ s[i] = s[j]
      BY <1>3, <1>4, <2>1, <2>2, FS_PigeonHole
  <2> QED
      BY <1>2, <2>3
<1>6. s \in Seq(S)
    BY <1>1, <1>2
<1> QED
    BY <1>5, <1>6

\* What is in the queue is next or comes after.
LEMMA InQueue ==
    ASSUME NEW X, NEW s \in Seq(X), s # <<>>, NEW e \in ToSet(s)
    PROVE  e = Head(s) \/ e \in ToSet(Tail(s))
<1>1. PICK i \in 1..Len(s) : s[i] = e
    BY DEF ToSet
<1>2. CASE i = 1
    BY <1>1, <1>2
<1>3. CASE i # 1
  <2>1. Tail(s)[i - 1] = e /\ i - 1 \in 1..Len(s) - 1 /\ Len(Tail(s)) = Len(s) - 1
      BY <1>1, <1>3
  <2>2. DOMAIN Tail(s) = 1..Len(s) - 1
    <3>1. Tail(s) \in Seq(X)
        OBVIOUS
    <3> QED
        BY <2>1, <3>1
  <2> QED
      BY <2>1, <2>2 DEF ToSet
<1> QED
    BY <1>2, <1>3

-----------------------------------------------------------------------------
(* What a kind of file is.                                                  *)

\* What is a file of a known kind is the same for all files: no configuration that
\* says only filters changes it.
LEMMA OwnExtensions ==
    ASSUME OnlyFilters, RunInv, NEW f \in Path
    PROVE  /\ GetAllExtensions(OwnOptions(f)) = GetAllExtensions(SettingsMade(Options, command.settings))
           /\ SettingsMade(Options, command.settings).valid_extensions = OwnOptions(f).valid_extensions
<1>1. PICK b : b = Base(command)
    OBVIOUS
<1>2. IsOptions(b)
    BY <1>1, BaseIsOptions DEF RunInv
<1>3. PICK tree : tree = World
    OBVIOUS
<1>4. FilterTree(tree)
    BY <1>3, WorldIsTree DEF RunInv
<1>5. PICK filters : ProcessConfigOverrides(b, tree, f).opts = Refiltered(b, filters)
    BY <1>2, <1>4, OverridesLeaveSettings
<1>6. PICK o : o = OwnOptions(f)
    OBVIOUS
<1>7. o = Refiltered(b, filters)
    BY <1>1, <1>3, <1>5, <1>6, OwnIsOwn DEF Own
<1>8. PICK p : p = SettingsMade(Options, command.settings)
    OBVIOUS
<1>9. IsOptions(p)
  <2>1. PICK s : s = command.settings /\ IsSequence(s)
      BY DEF RunInv
  <2>2. IsOptions(Options)
      BY DEF IsOptions, Options
  <2>3. IsOptions(SettingsMade(Options, s))
      BY <2>1, <2>2, SettingsAreOptions DEF IsSequence
  <2> QED
      BY <1>8, <2>1, <2>3
<1>10. PICK more : more = DefaultFilters \o command.filters
    OBVIOUS
<1>11. b = BackupFilters([p EXCEPT !.filters = more])
    BY <1>1, <1>8, <1>10 DEF Base
<1>12. b.valid_extensions = p.valid_extensions /\ b.hpp_headers = p.hpp_headers
    BY <1>9, <1>11 DEF BackupFilters, IsOptions
<1>13. o.valid_extensions = p.valid_extensions /\ o.hpp_headers = p.hpp_headers
    BY <1>2, <1>7, <1>12 DEF Refiltered, IsOptions
<1>14. GetAllExtensions(o) = GetAllExtensions(p)
    BY <1>13 DEF GetAllExtensions, GetHeaderExtensions
<1> QED
    BY <1>6, <1>8, <1>13, <1>14

\* The hook asks for no file that cpplint.py does not know.
LEMMA HookIsKnown ==
    ASSUME OnlyFilters, RunInv, command.settings = HookSettings, NEW f \in Path
    PROVE  HookExtensions \in SUBSET GetAllExtensions(OwnOptions(f))
<1>1. PICK p : p = SettingsMade(Options, command.settings)
    OBVIOUS
<1>2. p.valid_extensions = HookExtensions
  <2>1. PICK s : s = HookSettings
      OBVIOUS
  <2>2. PICK a, b : /\ a = [name |-> "extensions", val |-> HookExtensions]
                    /\ b = [name |-> "linelength", val |-> HookLineLength]
      OBVIOUS
  <2>3. s = <<a, b>>
      BY <2>1, <2>2 DEF HookSettings
  <2>4. s \in Seq({a, b}) /\ Len(s) = 2 /\ s[1] = a /\ s[2] = b
      BY <2>3
  <2>5. PICK h : /\ h[0] = Options /\ h[Len(s)] = SettingsMade(Options, s)
                 /\ \A k \in 1..Len(s) : h[k] = Set(h[k - 1], s[k])
      BY <2>4, SettingsMadeSteps
  <2>6. h[1] = Set(Options, a)
    <3>1. 1 \in 1..Len(s) /\ 1 - 1 = 0
        BY <2>4
    <3>2. h[1] = Set(h[1 - 1], s[1])
        BY <2>5, <3>1
    <3> QED
        BY <2>4, <2>5, <3>1, <3>2
  <2>7. p = Set(h[1], b)
    <3>1. 2 \in 1..Len(s) /\ 2 - 1 = 1
        BY <2>4
    <3>2. h[2] = Set(h[2 - 1], s[2])
        BY <2>5, <3>1
    <3> QED
        BY <1>1, <2>1, <2>4, <2>5, <3>1, <3>2
  <2>8. a.name = "extensions" /\ a.val = HookExtensions /\ b.name = "linelength"
      BY <2>2
  <2>9. PICK o : o = Options
      OBVIOUS
  <2>10. IsOptions(o)
      BY <2>9 DEF IsOptions, Options
  <2>11. h[1] = [o EXCEPT !.valid_extensions = a.val]
      BY <2>6, <2>8, <2>9 DEF Set
  <2>12. IsOptions(h[1]) /\ h[1].valid_extensions = HookExtensions
      BY <2>8, <2>10, <2>11 DEF IsOptions
  <2>13. p = [h[1] EXCEPT !.line_length = b.val]
      BY <2>7, <2>8 DEF Set
  <2> QED
      BY <2>12, <2>13 DEF IsOptions
<1>3. HookExtensions # {}
    BY DEF HookExtensions
<1>4. OwnOptions(f).valid_extensions = HookExtensions
    BY <1>1, <1>2, OwnExtensions
<1>5. PICK o : o = OwnOptions(f)
    OBVIOUS
<1>6. HookExtensions \in SUBSET GetAllExtensions(o)
    BY <1>3, <1>4, <1>5 DEF GetAllExtensions
<1> QED
    BY <1>5, <1>6

-----------------------------------------------------------------------------
(* The steps of a run.                                                      *)

\* What is asked for exists and has a path.
LEMMA AskedPaths == ASSUME RunInv PROVE Asked \in SUBSET (DOMAIN World.text) /\ Asked \in SUBSET Path
BY LintRunAssumption DEF Asked, RunInv, World

\* What is asked for does not change while the world and the command do not.
LEMMA SameTask ==
    ASSUME world' = world, command' = command
    PROVE  /\ World' = World /\ Asked' = Asked
           /\ \A f : (Fits(f) <=> Fits(f)') /\ (NeverJudged(f) <=> NeverJudged(f)')
<1>1. World' = World
    BY DEF World
<1>2. Asked' = Asked
    BY <1>1 DEF Asked
<1>3. ASSUME NEW f PROVE (Fits(f) <=> Fits(f)') /\ (NeverJudged(f) <=> NeverJudged(f)')
    BY <1>1 DEF Fits, NeverJudged, OwnOptions, OwnConfig
<1> QED
    BY <1>1, <1>2, <1>3

\* A step that leaves the command keeps CommandInv.
LEMMA SameCommand ==
    ASSUME CommandInv, world' = world, command' = command, pc # "hook",
           pc' # "hook", pc' \in {"arguments", "main", "line"} => pc \in {"arguments", "main", "line"}
    PROVE  CommandInv'
<1>1. World' = World
    BY SameTask
<1> QED
    BY <1>1 DEF CommandInv

\* The first file of the queue is done with.
LEMMA NoneLostNext ==
    ASSUME RunInv, NoneLost, world' = world, command' = command, queue # <<>>, queue' = Tail(queue),
           NEW e, judged' = Append(judged, e),
           /\ Head(queue) \in Asked /\ Fits(Head(queue)) /\ ~NeverJudged(Head(queue))
              => e.name = Head(queue) /\ e.outcome = "judged"
    PROVE  NoneLost'
<1>1. Asked' = Asked /\ \A f : (Fits(f) <=> Fits(f)') /\ (NeverJudged(f) <=> NeverJudged(f)')
    BY SameTask
<1>2. /\ Len(judged) \in Nat /\ DOMAIN judged = 1..Len(judged) /\ DOMAIN judged' = 1..Len(judged) + 1
      /\ \A i \in 1..Len(judged) : judged'[i] = judged[i]
      /\ judged'[Len(judged) + 1] = e
  <2>1. PICK X : judged \in Seq(X)
      BY DEF RunInv, IsSequence
  <2>2. judged' \in Seq(X \cup {e})
      BY <2>1
  <2> QED
      BY <2>1, <2>2
<1>3. ASSUME NEW f, HasJudged(f) PROVE HasJudged(f)'
  <2>1. PICK i \in DOMAIN judged : judged[i].name = f /\ judged[i].outcome = "judged"
      BY <1>3 DEF HasJudged
  <2>2. i \in DOMAIN judged' /\ judged'[i] = judged[i]
      BY <1>2, <2>1
  <2> QED
      BY <2>1, <2>2 DEF HasJudged
<1>4. ASSUME NEW f, e.name = f, e.outcome = "judged" PROVE HasJudged(f)'
  <2>1. Len(judged) + 1 \in DOMAIN judged'
      BY <1>2
  <2> QED
      BY <1>2, <1>4, <2>1 DEF HasJudged
<1>5. ASSUME NEW f \in Asked, Fits(f), ~NeverJudged(f) PROVE f \in ToSet(queue') \/ HasJudged(f)'
  <2>1. CASE HasJudged(f)
      BY <1>3, <2>1
  <2>2. CASE f \in ToSet(queue)
    <3>1. PICK s : s = queue /\ s \in Seq(Path)
        BY DEF RunInv
    <3>2. f = Head(s) \/ f \in ToSet(Tail(s))
        BY <2>2, <3>1, InQueue
    <3> QED
        BY <1>4, <1>5, <3>1, <3>2
  <2> QED
      BY <1>5, <2>1, <2>2 DEF NoneLost
<1>6. NoneLost' <=> \A f \in Asked' : Fits(f)' /\ ~NeverJudged(f)' => f \in ToSet(queue') \/ HasJudged(f)'
    BY DEF NoneLost
<1> QED
    BY <1>1, <1>5, <1>6

\* What a judged file adds to what is shown.
LEMMA ShownNext ==
    ASSUME RunInv, NEW e, judged' = Append(judged, e)
    PROVE  Shown' <=> Shown \/ e.judge.printed # <<>>
<1>1. /\ Len(judged) \in Nat /\ DOMAIN judged = 1..Len(judged) /\ DOMAIN judged' = 1..Len(judged) + 1
      /\ \A i \in 1..Len(judged) : judged'[i] = judged[i]
      /\ judged'[Len(judged) + 1] = e
  <2>1. PICK X : judged \in Seq(X)
      BY DEF RunInv, IsSequence
  <2>2. judged' \in Seq(X \cup {e})
      BY <2>1
  <2> QED
      BY <2>1, <2>2
<1>2. \A i \in 1..Len(judged) + 1 : i \in 1..Len(judged) \/ i = Len(judged) + 1
    BY <1>1
<1>3. \A i \in 1..Len(judged) : i \in 1..Len(judged) + 1
    BY <1>1
<1>4. Len(judged) + 1 \in 1..Len(judged) + 1
    BY <1>1
<1> QED
    BY <1>1, <1>2, <1>3, <1>4 DEF Shown

\* What is shown is what was said of the finished files.
LEMMA SameShown == ASSUME judged' = judged PROVE Shown' <=> Shown
BY DEF Shown

\* A file that is left out.
LEMMA LeftOutClean ==
    ASSUME RunInv, CleanInv, pc = "main", queue # <<>>, NEW reason, LeftOut(reason),
           ~(Head(queue) \in Asked /\ Fits(Head(queue)) /\ ~NeverJudged(Head(queue)))
    PROVE  CleanInv'
<1>1. /\ world' = world /\ command' = command /\ queue' = Tail(queue) /\ pc' = pc /\ error_count' = error_count
    BY DEF LeftOut
<1>2. PICK e : e.judge = NoErrors /\ judged' = Append(judged, e)
  <2>1. PICK j : j = NoErrors
      OBVIOUS
  <2>2. judged' = Append(judged, [name |-> Head(queue), outcome |-> reason, lines |-> <<>>, judge |-> j])
      BY <2>1 DEF LeftOut
  <2> QED
      BY <2>1, <2>2
<1>3. NoneLost'
    BY <1>1, <1>2, NoneLostNext DEF CleanInv
<1>4. Shown' <=> Shown
    BY <1>2, ShownNext, NoErrorsType
<1>5. CommandInv'
    BY <1>1, SameCommand DEF CleanInv
<1>6. CountsShown(error_count)'
    BY <1>1, <1>4 DEF CleanInv, CountsShown
<1> QED
    BY <1>1, <1>3, <1>5, <1>6 DEF CleanInv, AcceptedIsClean

\* The three ways of leaving out a file are the three of NeverJudged and Fits.
LEMMA ExcludedClean ==
    ASSUME RunInv, CleanInv, Excluded
    PROVE  CleanInv'
<1>1. pc = "main" /\ queue # <<>> /\ Config.excluded
    BY DEF Excluded, Begins
<1>2. Config = OwnConfig(Head(queue))
    BY <1>1 DEF Config, OwnConfig, RunInv, Base, SettingsMade
<1>3. NeverJudged(Head(queue))
    BY <1>1, <1>2 DEF NeverJudged
<1> QED
    BY <1>1, <1>3, LeftOutClean DEF Excluded

LEMMA UnreadableClean ==
    ASSUME RunInv, CleanInv, Unreadable
    PROVE  CleanInv'
<1>1. pc = "main" /\ queue # <<>> /\ Head(queue) \notin Readable
    BY DEF Unreadable, Reads, Begins
<1>2. Head(queue) \in Asked => NeverJudged(Head(queue))
    BY <1>1, AskedPaths DEF NeverJudged, Readable
<1> QED
    BY <1>1, <1>2, LeftOutClean DEF Unreadable

LEMMA IgnoredExtensionClean ==
    ASSUME OnlyFilters, RunInv, CleanInv, IgnoredExtension
    PROVE  CleanInv'
<1>1. /\ pc = "main" /\ queue # <<>>
      /\ World.info[Head(queue)].ext \notin GetAllExtensions(Config.opts)
    BY DEF IgnoredExtension, Opens, Reads, Begins
<1>2. Config.opts = OwnOptions(Head(queue))
    BY <1>1, ConfigIsOwn, OwnIsOwn DEF RunInv
<1>3. Head(queue) \in Path
    BY <1>1 DEF RunInv
<1>4. ~Fits(Head(queue))
  <2>1. CASE World.hook = "none"
      BY <1>1, <1>2, <2>1 DEF Fits
  <2>2. CASE World.hook # "none"
    <3>1. command.settings = HookSettings
        BY <1>1, <2>2 DEF CleanInv, CommandInv
    <3>2. HookExtensions \in SUBSET GetAllExtensions(OwnOptions(Head(queue)))
        BY <1>3, <3>1, HookIsKnown
    <3> QED
        BY <1>1, <1>2, <2>2, <3>2 DEF Fits
  <2> QED
      BY <2>1, <2>2
<1> QED
    BY <1>1, <1>4, LeftOutClean DEF IgnoredExtension

\* A file that is begun has its first errors counted,
LEMMA StartFileClean ==
    ASSUME RunInv, CleanInv, StartFile
    PROVE  CleanInv'
<1>1. /\ pc = "main" /\ pc' = "line" /\ queue # <<>> /\ queue' = queue /\ judged' = judged
      /\ world' = world /\ command' = command
    BY DEF StartFile, Opens, Reads, Begins
<1>2. PICK lines \in World.text[Head(queue)] :
          /\ file' = Prepared(opts', World.info[Head(queue)], lines)
          /\ error_count' = error_count + Len(file'.judge.printed)
    BY DEF StartFile
<1>3. Head(queue) \in DOMAIN World.text
    BY DEF StartFile, Opens, Readable
<1>4. lines \in Seq(Seq(STRING)) /\ IsSequence(World.info[Head(queue)].own)
    BY <1>3, LintRunAssumption DEF World, RunInv
<1>5. IsText(lines)
  <2>1. IsSequence(lines)
      BY <1>4, SeqIs
  <2>2. \A i \in 1..Len(lines) : lines[i] \in Seq(STRING)
      BY <1>4
  <2> QED
      BY <2>1, <2>2, SeqIs DEF IsText
<1>6. PICK o, info, f : o = opts' /\ info = World.info[Head(queue)] /\ f = Prepared(o, info, lines)
    OBVIOUS
<1>7. Typed(f)
    BY <1>4, <1>5, <1>6, PreparedType
<1>8. file' = f
    BY <1>2, <1>6
<1>9. Typed(file')
    BY <1>7, <1>8
<1>10. Len(file'.judge.printed) \in Nat
    BY <1>9, SeqHas DEF Typed, IsJudge
<1>11. CountsShown(error_count)
    BY <1>1 DEF CleanInv
<1>12. error_count' - Len(file'.judge.printed) = error_count
    BY <1>2, <1>10, <1>11 DEF CountsShown
<1>13. Shown' <=> Shown
    BY <1>1, SameShown
<1>14. CountsShown(error_count - Len(file.judge.printed))'
    BY <1>11, <1>12, <1>13 DEF CountsShown
<1>18. error_count' \in Int
    BY <1>2, <1>10, <1>11 DEF CountsShown
<1>15. CommandInv'
    BY <1>1, SameCommand DEF CleanInv
<1>16. NoneLost'
  <2>1. Asked' = Asked /\ \A path : (Fits(path) <=> Fits(path)') /\ (NeverJudged(path) <=> NeverJudged(path)')
      BY <1>1, SameTask
  <2>2. \A path : HasJudged(path)' <=> HasJudged(path)
      BY <1>1 DEF HasJudged
  <2> QED
      BY <1>1, <2>1, <2>2 DEF CleanInv, NoneLost
<1>17. (Typed(file))'
    BY <1>9 DEF Typed, IsFile
<1> QED
    BY <1>1, <1>14, <1>15, <1>16, <1>17, <1>18 DEF CleanInv, AcceptedIsClean

\* and those of every line.
LEMMA ProcessLineClean ==
    ASSUME RunInv, CleanInv, ProcessLine
    PROVE  CleanInv'
<1>1. /\ pc = "line" /\ pc' = "line" /\ queue' = queue /\ judged' = judged
      /\ world' = world /\ command' = command /\ file.n <= Len(file.lines)
    BY DEF ProcessLine
<1>2. PICK f, o, g : f = file /\ o = opts /\ g = ProcessedLine(f, o)
    OBVIOUS
<1>3. file' = g /\ error_count' = error_count + Len(g.judge.printed) - Len(f.judge.printed)
    BY <1>2 DEF ProcessLine
<1>4. Typed(f)
    BY <1>1, <1>2 DEF CleanInv
<1>5. Typed(g)
    BY <1>1, <1>2, <1>4, ProcessedType
<1>6. Len(f.judge.printed) \in Nat /\ Len(g.judge.printed) \in Nat
    BY <1>4, <1>5, SeqHas DEF Typed, IsJudge
<1>7. error_count \in Int
    BY <1>1 DEF CleanInv
<1>8. error_count' - Len(file'.judge.printed) = error_count - Len(file.judge.printed)
    BY <1>2, <1>3, <1>6, <1>7
<1>14. error_count' \in Int
    BY <1>3, <1>6, <1>7
<1>9. Shown' <=> Shown
    BY <1>1, SameShown
<1>10. CountsShown(error_count - Len(file.judge.printed))'
    BY <1>1, <1>8, <1>9 DEF CleanInv, CountsShown
<1>11. CommandInv'
    BY <1>1, SameCommand DEF CleanInv
<1>12. NoneLost'
  <2>1. Asked' = Asked /\ \A path : (Fits(path) <=> Fits(path)') /\ (NeverJudged(path) <=> NeverJudged(path)')
      BY <1>1, SameTask
  <2>2. \A path : HasJudged(path)' <=> HasJudged(path)
      BY <1>1 DEF HasJudged
  <2> QED
      BY <1>1, <2>1, <2>2 DEF CleanInv, NoneLost
<1>13. (Typed(file))'
    BY <1>3, <1>5 DEF Typed, IsFile
<1> QED
    BY <1>1, <1>10, <1>11, <1>12, <1>13, <1>14 DEF CleanInv, AcceptedIsClean

\* The count is Len of what is printed, also of a file that is finished.
LEMMA FinishFileClean ==
    ASSUME RunInv, CleanInv, FinishFile
    PROVE  CleanInv'
<1>1. /\ pc = "line" /\ pc' = "main" /\ queue' = Tail(queue) /\ world' = world /\ command' = command /\ queue # <<>>
    BY DEF FinishFile, RunInv
<1>2. PICK f, o, j : f = file /\ o = opts /\ j = Finished(f, o)
    OBVIOUS
<1>3. Typed(f)
    BY <1>1, <1>2 DEF CleanInv
<1>4. IsJudge(j)
    BY <1>2, <1>3, FinishedType
<1>5. PICK e : /\ judged' = Append(judged, e) /\ e.name = Head(queue) /\ e.outcome = "judged" /\ e.judge = j
               /\ error_count' = error_count + Len(j.printed) - Len(f.judge.printed)
  <2>1. PICK e : e = [name |-> Head(queue), outcome |-> "judged", lines |-> file.lines, judge |-> j]
      OBVIOUS
  <2>2. judged' = Append(judged, e) /\ error_count' = error_count + Len(j.printed) - Len(f.judge.printed)
      BY <1>2, <2>1 DEF FinishFile
  <2> QED
      BY <2>1, <2>2
<1>6. NoneLost'
    BY <1>1, <1>5, NoneLostNext DEF CleanInv
<1>7. Len(f.judge.printed) \in Nat /\ Len(j.printed) \in Nat /\ (Len(j.printed) = 0 <=> j.printed = <<>>)
  <2>1. PICK p : p = j.printed /\ IsSequence(p)
      BY <1>4 DEF IsJudge
  <2>2. Len(p) \in Nat /\ (Len(p) = 0 <=> p = <<>>)
      BY <2>1 DEF IsSequence
  <2> QED
      BY <1>3, <2>1, <2>2, SeqHas DEF Typed, IsJudge
<1>8. PICK count \in Nat : count = error_count - Len(f.judge.printed) /\ (count = 0 <=> ~Shown) /\ error_count \in Int
    BY <1>1, <1>2 DEF CleanInv, CountsShown
<1>9. error_count' = count + Len(j.printed)
    BY <1>5, <1>7, <1>8
<1>10. Shown' <=> Shown \/ j.printed # <<>>
    BY <1>5, ShownNext
<1>11. error_count' \in Nat /\ (error_count' = 0 <=> ~Shown')
    BY <1>7, <1>8, <1>9, <1>10
<1>12. CommandInv'
    BY <1>1, SameCommand DEF CleanInv
<1> QED
    BY <1>1, <1>6, <1>11, <1>12 DEF CleanInv, CountsShown, AcceptedIsClean

-----------------------------------------------------------------------------
(* The steps before the first file, and the last.                           *)

\* A run begins in CleanInv.
LEMMA CleanInit == Init => CleanInv
<1> SUFFICES ASSUME Init PROVE CleanInv
    OBVIOUS
<1>1. pc = IF World.hook = "none" THEN "arguments" ELSE "hook"
    BY DEF Init
<1>2. command = World.command
    BY DEF Init
<1>3. CommandInv
    BY <1>1, <1>2 DEF CommandInv
<1> QED
    BY <1>1, <1>3 DEF CleanInv, AcceptedIsClean

\* At its end a run is as it was before.
LEMMA AtExit ==
    ASSUME NEW code, Exit(code)
    PROVE  /\ pc' = "exit" /\ status' = code /\ World' = World /\ Asked' = Asked
           /\ \A f : (Fits(f) <=> Fits(f)') /\ (NeverJudged(f) <=> NeverJudged(f)') /\ (HasJudged(f) <=> HasJudged(f)')
           /\ Shown' <=> Shown
           /\ CannotBeDone' <=> CannotBeDone
           /\ CommandInv => CommandInv'
<1>1. /\ pc' = "exit" /\ status' = code /\ world' = world /\ command' = command /\ queue' = queue /\ judged' = judged
    BY DEF Exit
<1>2. World' = World /\ Asked' = Asked /\ \A f : (Fits(f) <=> Fits(f)') /\ (NeverJudged(f) <=> NeverJudged(f)')
    BY <1>1, SameTask
<1>3. \A f : HasJudged(f) <=> HasJudged(f)'
    BY <1>1 DEF HasJudged
<1>4. Shown' <=> Shown
    BY <1>1, SameShown
<1>5. CannotBeDone' <=> CannotBeDone
    BY <1>1, <1>2 DEF CannotBeDone, ArgumentsWrong
<1>6. CommandInv => CommandInv'
    BY <1>1, <1>2 DEF CommandInv
<1> QED
    BY <1>1, <1>2, <1>3, <1>4, <1>5, <1>6

\* An exit with 1 needs a reason,
LEMMA FailsClean ==
    ASSUME CleanInv, Exit(1), Shown \/ CannotBeDone
    PROVE  CleanInv'
<1>1. AcceptedIsClean'
    BY AtExit DEF AcceptedIsClean
<1> QED
    BY <1>1, AtExit DEF CleanInv

\* an exit with 0 that nothing is shown and nothing lost.
LEMMA PassesClean ==
    ASSUME CleanInv, Exit(0), ~Shown, \A f \in Asked : Fits(f) /\ ~NeverJudged(f) => HasJudged(f)
    PROVE  CleanInv'
<1>1. /\ pc' = "exit" /\ status' = 0 /\ Asked' = Asked /\ (Shown' <=> Shown) /\ CommandInv'
      /\ \A f : (Fits(f) <=> Fits(f)') /\ (NeverJudged(f) <=> NeverJudged(f)') /\ (HasJudged(f) <=> HasJudged(f)')
    BY AtExit DEF CleanInv
<1>2. AcceptedIsClean' <=>
          /\ pc' = "exit" /\ status' = 0 =>
                ~Shown' /\ \A f \in Asked' : Fits(f)' /\ ~NeverJudged(f)' => HasJudged(f)'
          /\ pc' = "exit" /\ status' = 1 => Shown' \/ CannotBeDone'
    BY DEF AcceptedIsClean
<1>3. AcceptedIsClean'
    BY <1>1, <1>2
<1> QED
    BY <1>1, <1>3 DEF CleanInv

\* The end of cpplint.py: the count tells.
LEMMA FinishClean ==
    ASSUME RunInv, CleanInv, Finish
    PROVE  CleanInv'
<1>1. pc = "main" /\ queue = <<>> /\ Exit(IF error_count > 0 THEN 1 ELSE 0)
    BY DEF Finish
<1>2. error_count \in Nat /\ (error_count = 0 <=> ~Shown) /\ NoneLost
    BY <1>1 DEF CleanInv, CountsShown
<1>3. CASE error_count > 0
    BY <1>1, <1>2, <1>3, FailsClean
<1>4. CASE ~(error_count > 0)
  <2>1. \A f : f \notin ToSet(queue)
      BY <1>1 DEF ToSet
  <2>2. \A f \in Asked : Fits(f) /\ ~NeverJudged(f) => HasJudged(f)
      BY <1>2, <2>1 DEF NoneLost
  <2> QED
      BY <1>1, <1>2, <1>4, <2>2, PassesClean
<1> QED
    BY <1>3, <1>4

\* A hook that finds no file of its kinds has none to judge.
LEMMA HookPassesClean ==
    ASSUME RunInv, CleanInv, HookPasses
    PROVE  CleanInv'
<1>1. pc = "hook" /\ World.hook = "staged" /\ Staged = <<>> /\ Exit(0)
    BY DEF HookPasses
<1>2. ~Shown
  <2>1. judged = <<>>
      BY <1>1 DEF RunInv
  <2> QED
      BY <2>1 DEF Shown
<1>3. ASSUME NEW f \in Asked, Fits(f) PROVE FALSE
  <2>1. command = World.command
      BY <1>1 DEF CleanInv, CommandInv
  <2>2. World.hook # "none"
      BY <1>1
  <2>3. ~World.command.recursive /\ DOMAIN World.info = DOMAIN World.text /\ World.command.files \in Seq(Path)
      BY <2>2, LintRunAssumption DEF World, RunInv
  <2>4. f \in ToSet(World.command.files)
      BY <2>1, <2>3 DEF Asked
  <2>5. World.info[f].ext \in HookExtensions
      BY <1>3, <2>2 DEF Fits
  <2>6. PICK s, out : /\ s = World.command.files /\ s \in Seq(Path)
                      /\ out = {g \in DOMAIN World.info : World.info[g].ext \notin HookExtensions}
      BY <2>3
  <2>7. f \notin out
      BY <2>5, <2>6
  <2>8. f \in ToSet(Without(s, out))
      BY <2>4, <2>6, <2>7, WithoutKeeps
  <2>9. Without(s, out) = <<>>
      BY <1>1, <2>6 DEF Staged
  <2> QED
      BY <2>8, <2>9 DEF ToSet
<1> QED
    BY <1>1, <1>2, <1>3, PassesClean

\* The hook calls cpplint.py with its own options.
LEMMA HookCallsClean ==
    ASSUME RunInv, CleanInv, HookCalls
    PROVE  CleanInv'
<1>1. pc = "hook" /\ pc' = "arguments" /\ world' = world /\ World.hook = "staged" /\ World' = World
    BY DEF HookCalls, World
<1>2. command'.settings = HookSettings /\ ~command'.recursive
  <2>1. PICK s, filters, files : s = HookSettings /\ filters = HookFilters /\ files = Staged
      OBVIOUS
  <2>2. command' = [settings |-> s, filters |-> filters, recursive |-> FALSE, exclude |-> {}, files |-> files]
      BY <2>1 DEF HookCalls, HookSettings
  <2> QED
      BY <2>1, <2>2
<1>3. CommandInv'
    BY <1>1, <1>2 DEF CommandInv
<1> QED
    BY <1>1, <1>3 DEF CleanInv, AcceptedIsClean

\* All files that are to be judged come into the queue.
LEMMA AllQueued ==
    ASSUME OnlyFilters, RunInv, CommandInv, pc = "arguments", NEW names \in FileNames(ParsedOptions),
           NEW f \in Asked, Fits(f), ~NeverJudged(f)
    PROVE  f \in ToSet(names)
<1>1. f \notin command.exclude
    BY DEF NeverJudged
<1>2. PICK out : out = command.exclude
    OBVIOUS
<1>3. f \in DOMAIN World.text /\ f \in Path
    BY AskedPaths
<1>4. CASE ~command.recursive
  <2>1. PICK s : s = command.files /\ s \in Seq(Path)
      BY DEF RunInv
  <2>2. f \in ToSet(s)
      BY <1>4, <2>1 DEF Asked
  <2>3. names = Without(s, out)
      BY <1>2, <1>4, <2>1 DEF FileNames
  <2> QED
      BY <1>1, <1>2, <2>1, <2>2, <2>3, WithoutKeeps
<1>5. CASE command.recursive
  <2>1. World.hook = "none"
      BY <1>5 DEF CommandInv
  <2>2. World.info[f].ext \in GetAllExtensions(ParsedOptions)
    <3>1. ParsedOptions = SettingsMade(Options, command.settings)
        BY DEF ParsedOptions, SettingsMade, RunInv
    <3>2. World.info[f].ext \in GetAllExtensions(OwnOptions(f))
        BY <2>1 DEF Fits
    <3> QED
        BY <1>3, <3>1, <3>2, OwnExtensions
  <2>3. \E name \in ToSet(command.files) : IsPrefix(name, f)
    <3>1. IsPrefix(f, f)
      <4>1. f \in Seq(STRING)
          BY <1>3 DEF Path
      <4> QED
          BY <4>1 DEF IsPrefix
    <3> QED
        BY <3>1 DEF Asked
  <2>4. PICK S : S = Expanded(ParsedOptions)
      OBVIOUS
  <2>5. f \in S
      BY <1>3, <2>2, <2>3, <2>4 DEF Expanded
  <2>6. IsFiniteSet(S)
    <3>1. IsFiniteSet(DOMAIN World.text)
        BY LintRunAssumption DEF World, RunInv
    <3>2. S \in SUBSET (DOMAIN World.text)
        BY <2>4 DEF Expanded
    <3> QED
        BY <3>1, <3>2, FS_Subset
  <2>7. PICK s \in SetToSeqs(S) : names = Without(s, out)
      BY <1>2, <1>5, <2>4 DEF FileNames
  <2>8. s \in Seq(S) /\ f \in ToSet(s)
      BY <2>5, <2>6, <2>7, OrderHasAll
  <2> QED
      BY <1>1, <1>2, <2>7, <2>8, WithoutKeeps
<1> QED
    BY <1>4, <1>5

\* The first count is 0, and nothing is shown.
LEMMA ParseArgumentsClean ==
    ASSUME OnlyFilters, RunInv, CleanInv, ParseArguments
    PROVE  CleanInv'
<1>1. /\ pc = "arguments" /\ pc' = "main" /\ world' = world /\ command' = command /\ judged' = judged
      /\ judged = <<>> /\ error_count' = 0 /\ queue' \in FileNames(ParsedOptions)
    BY DEF ParseArguments, RunInv
<1>2. CommandInv'
    BY <1>1, SameCommand DEF CleanInv
<1>3. NoneLost'
  <2>1. Asked' = Asked /\ \A f : (Fits(f) <=> Fits(f)') /\ (NeverJudged(f) <=> NeverJudged(f)')
      BY <1>1, SameTask
  <2>2. \A f \in Asked : Fits(f) /\ ~NeverJudged(f) => f \in ToSet(queue')
    <3>1. PICK names : names = queue' /\ names \in FileNames(ParsedOptions)
        BY <1>1
    <3>2. \A f \in Asked : Fits(f) /\ ~NeverJudged(f) => f \in ToSet(names)
        BY <1>1, <3>1, AllQueued DEF CleanInv
    <3> QED
        BY <3>1, <3>2
  <2>3. NoneLost' <=> \A f \in Asked' : Fits(f)' /\ ~NeverJudged(f)' => f \in ToSet(queue') \/ HasJudged(f)'
      BY DEF NoneLost
  <2> QED
      BY <2>1, <2>2, <2>3
<1>4. ~Shown'
    BY <1>1 DEF Shown
<1> QED
    BY <1>1, <1>2, <1>3, <1>4 DEF CleanInv, CountsShown, AcceptedIsClean

\* Every step of a run keeps CleanInv.
LEMMA CleanNext ==
    ASSUME OnlyFilters, RunInv, CleanInv, [Next]_vars
    PROVE  CleanInv'
<1>1. CASE HookRefuses
    BY <1>1, FailsClean DEF HookRefuses, CannotBeDone
<1>2. CASE HookPasses
    BY <1>2, HookPassesClean
<1>3. CASE HookCalls
    BY <1>3, HookCallsClean
<1>4. CASE ParseArgumentsFails
    BY <1>4, FailsClean DEF ParseArgumentsFails, CannotBeDone
<1>5. CASE ParseArguments
    BY <1>5, ParseArgumentsClean
<1>6. CASE Excluded
    BY <1>6, ExcludedClean
<1>7. CASE Crash
    BY <1>7, FailsClean DEF Crash, Begins, CannotBeDone
<1>8. CASE Unreadable
    BY <1>8, UnreadableClean
<1>9. CASE IgnoredExtension
    BY <1>9, IgnoredExtensionClean
<1>10. CASE StartFile
    BY <1>10, StartFileClean
<1>11. CASE ProcessLine
    BY <1>11, ProcessLineClean
<1>12. CASE FinishFile
    BY <1>12, FinishFileClean
<1>13. CASE Finish
    BY <1>13, FinishClean
<1>14. CASE UNCHANGED vars
  <2>1. /\ world' = world /\ pc' = pc /\ command' = command /\ queue' = queue /\ file' = file /\ judged' = judged
        /\ error_count' = error_count /\ status' = status
      BY <1>14 DEF vars
  <2>2. /\ World' = World /\ Asked' = Asked
        /\ \A f : (Fits(f) <=> Fits(f)') /\ (NeverJudged(f) <=> NeverJudged(f)') /\ (HasJudged(f) <=> HasJudged(f)')
      BY <2>1, SameTask DEF HasJudged
  <2>3. (Shown' <=> Shown) /\ (CannotBeDone' <=> CannotBeDone)
      BY <2>1, <2>2, SameShown DEF CannotBeDone, ArgumentsWrong
  <2>4. CommandInv' <=> CommandInv
      BY <2>1, <2>2 DEF CommandInv
  <2>5. NoneLost' <=> NoneLost
    <3>1. NoneLost' <=> \A f \in Asked' : Fits(f)' /\ ~NeverJudged(f)' => f \in ToSet(queue') \/ HasJudged(f)'
        BY DEF NoneLost
    <3> QED
        BY <2>1, <2>2, <3>1 DEF NoneLost
  <2>6. AcceptedIsClean' <=> AcceptedIsClean
    <3>1. AcceptedIsClean' <=>
              /\ pc' = "exit" /\ status' = 0 =>
                    ~Shown' /\ \A f \in Asked' : Fits(f)' /\ ~NeverJudged(f)' => HasJudged(f)'
              /\ pc' = "exit" /\ status' = 1 => Shown' \/ CannotBeDone'
        BY DEF AcceptedIsClean
    <3> QED
        BY <2>1, <2>2, <2>3, <3>1 DEF AcceptedIsClean
  <2>7. (Typed(file))' <=> Typed(file)
      BY <2>1 DEF Typed, IsFile
  <2>8. \A count : (CountsShown(count))' <=> CountsShown(count)
      BY <2>3 DEF CountsShown
  <2>9. CountsShown(error_count)' <=> CountsShown(error_count)
      BY <2>1, <2>3 DEF CountsShown
  <2>10. CountsShown(error_count - Len(file.judge.printed))' <=> CountsShown(error_count - Len(file.judge.printed))
      BY <2>1, <2>3 DEF CountsShown
  <2> QED
      BY <2>1, <2>4, <2>5, <2>6, <2>7, <2>9, <2>10 DEF CleanInv
<1> QED
    BY <1>1, <1>2, <1>3, <1>4, <1>5, <1>6, <1>7, <1>8, <1>9, <1>10, <1>11, <1>12, <1>13, <1>14 DEF Next, Over

\* A run that passes, and a commit that the hook lets pass, has shown no error and
\* judged every file that is to be judged; one that fails has shown an error or
\* could not be done. For any files with any lines, any command line and any
\* configurations that say nothing but filters.
THEOREM AcceptedIsCleanAlways == ASSUME OnlyFilters PROVE Spec => []AcceptedIsClean
<1>1. Init => RunInv /\ CleanInv
    BY RunInit, CleanInit
<1>2. RunInv /\ CleanInv /\ [Next]_vars => (RunInv /\ CleanInv)'
    BY RunNext, CleanNext
<1>3. RunInv /\ CleanInv => AcceptedIsClean
    BY DEF CleanInv
<1> QED
    BY <1>1, <1>2, <1>3, PTL DEF Spec
=============================================================================
