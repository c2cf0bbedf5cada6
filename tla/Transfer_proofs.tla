--------------------------- MODULE Transfer_proofs ---------------------------
(***************************************************************************)
(* Proofs about Transfer: what the cleaning of rows makes of JSON at any   *)
(* depth, what detectSeparator finds, the type invariant, and what an      *)
(* import does to the table.                                               *)
(***************************************************************************)
EXTENDS Transfer, FiniteSetTheorems, SequenceTheorems, WellFoundedInduction, TLAPS

-----------------------------------------------------------------------------
(* Recursion on values *)

LEMMA DepthIsNat == \A v \in Values : Depth(v) \in Nat
BY ValuesAssumption

\* Of the values in a set, one is the least deep.
LEMMA Shallowest ==
    ASSUME NEW T \in SUBSET Values, T # {}
    PROVE  \E v \in T : \A w \in T : ~(Depth(w) < Depth(v))
<1> DEFINE depths == {Depth(v) : v \in T}
<1>1. depths \in SUBSET Nat /\ depths # {}
  BY ValuesAssumption
<1>2. PICK x \in depths : \A y \in depths : <<y, x>> \notin OpToRel(<, Nat)
  BY <1>1, NatLessThanWellFounded, WFMin
<1>3. \A y \in depths : ~(y < x)
  BY <1>1, <1>2 DEF OpToRel
<1> QED
  BY <1>2, <1>3

\* A function on values that rebuilds a list or an object out of what it makes of less
\* deep values, the children, or that collects what it finds in them.
Recursion(f, Child, Own, how) ==
    [v \in Values |->
        IF how = "collect" THEN Own[v] \cup UNION {f[Child[v][key]] : key \in DOMAIN Child[v]}
        ELSE IF IsComposite(v) THEN <<v[1], [key \in DOMAIN Child[v] |-> f[Child[v][key]]]>>
        ELSE v]

\* It is defined by its recursion.
LEMMA RecursionExists ==
    ASSUME NEW Child, NEW Own, NEW how,
           \A v \in Values : \A key \in DOMAIN Child[v] :
              Child[v][key] \in Values /\ Depth(Child[v][key]) < Depth(v)
    PROVE  \E f : f = Recursion(f, Child, Own, how)
<1> DEFINE B(f, v) ==
              IF how = "collect" THEN Own[v] \cup UNION {f[Child[v][key]] : key \in DOMAIN Child[v]}
              ELSE IF IsComposite(v)
                THEN <<v[1], [key \in DOMAIN Child[v] |-> f[Child[v][key]]]>>
              ELSE v
           Good(f, n) == \A v \in Values : Depth(v) < n => f[v] = B(f, v)
<1>1. ASSUME NEW f, NEW g, NEW v \in Values,
             \A w \in Values : Depth(w) < Depth(v) => f[w] = g[w]
      PROVE  B(f, v) = B(g, v)
  <2>1. \A key \in DOMAIN Child[v] : f[Child[v][key]] = g[Child[v][key]]
    BY <1>1
  <2>2. {f[Child[v][key]] : key \in DOMAIN Child[v]} = {g[Child[v][key]] : key \in DOMAIN Child[v]}
    BY <2>1
  <2>3. [key \in DOMAIN Child[v] |-> f[Child[v][key]]]
           = [key \in DOMAIN Child[v] |-> g[Child[v][key]]]
    BY <2>1
  <2> QED
    BY <2>2, <2>3
<1> HIDE DEF B
<1>2. ASSUME NEW f, NEW g, NEW n \in Nat, Good(f, n), Good(g, n)
      PROVE  \A v \in Values : Depth(v) < n => f[v] = g[v]
  <2> DEFINE T == {v \in Values : Depth(v) < n /\ f[v] # g[v]}
  <2> SUFFICES ASSUME T # {}
               PROVE  FALSE
    OBVIOUS
  <2>1. PICK v \in T : \A w \in T : ~(Depth(w) < Depth(v))
    BY Shallowest
  <2>2. \A w \in Values : Depth(w) < Depth(v) => f[w] = g[w]
    BY <2>1, DepthIsNat
  <2>3. B(f, v) = B(g, v)
    BY <1>1, <2>2
  <2> QED
    BY <1>2, <2>1, <2>3
<1>3. ASSUME NEW n \in Nat
      PROVE  \E f : Good(f, n)
  <2> DEFINE T == {k \in Nat : ~ \E f : Good(f, k)}
  <2> SUFFICES ASSUME T # {}
               PROVE  FALSE
    BY <1>3
  <2>1. PICK m \in T : \A k \in T : <<k, m>> \notin OpToRel(<, Nat)
    <3>1. T \subseteq Nat
      OBVIOUS
    <3> HIDE DEF T
    <3> QED
      BY <3>1, NatLessThanWellFounded, WFMin
  <2>2. m \in Nat /\ \A f : ~Good(f, m)
    BY <2>1
  <2>3. m # 0
    <3>1. \A f : Good(f, 0)
      BY DepthIsNat
    <3> QED
      BY <2>2, <3>1
  <2>4. m - 1 \in Nat /\ m - 1 \notin T
    <3>1. m - 1 \in Nat /\ m - 1 < m
      BY <2>2, <2>3
    <3>2. <<m - 1, m>> \in OpToRel(<, Nat)
      BY <2>2, <3>1 DEF OpToRel
    <3> HIDE DEF T
    <3> QED
      BY <2>1, <3>1, <3>2
  <2>5. PICK f : Good(f, m - 1)
    BY <2>4
  <2> DEFINE g == [v \in Values |-> B(f, v)]
  <2>6. ASSUME NEW v \in Values, Depth(v) < m
        PROVE  g[v] = B(g, v)
    <3>1. \A w \in Values : Depth(w) < Depth(v) => Depth(w) < m - 1
      BY <2>2, <2>6, DepthIsNat
    <3>2. \A w \in Values : Depth(w) < Depth(v) => f[w] = g[w]
      BY <2>5, <3>1
    <3> HIDE DEF g
    <3>3. B(f, v) = B(g, v)
      BY <1>1, <3>2
    <3> QED
      BY <3>3 DEF g
  <2> QED
    BY <2>2, <2>6
<1> DEFINE upTo(v) == CHOOSE f : Good(f, Depth(v) + 1)
           F == [v \in Values |-> upTo(v)[v]]
<1>4. ASSUME NEW v \in Values
      PROVE  Good(upTo(v), Depth(v) + 1)
  <2>1. \E f : Good(f, Depth(v) + 1)
    <3>1. Depth(v) + 1 \in Nat
      BY DepthIsNat
    <3> HIDE DEF Good
    <3> QED
      BY <1>3, <3>1
  <2> HIDE DEF Good
  <2> QED
    BY <2>1
<1>5. ASSUME NEW v \in Values
      PROVE  F[v] = B(F, v)
  <2>1. ASSUME NEW w \in Values, Depth(w) < Depth(v)
        PROVE  upTo(v)[w] = F[w]
    <3>1. Good(upTo(w), Depth(w) + 1)
      BY <1>4
    <3>2. Good(upTo(v), Depth(w) + 1)
      <4>1. \A x \in Values : Depth(x) < Depth(w) + 1 => Depth(x) < Depth(v) + 1
        BY <2>1, DepthIsNat
      <4>2. Good(upTo(v), Depth(v) + 1)
        BY <1>4
      <4> HIDE DEF upTo
      <4> QED
        BY <4>1, <4>2
    <3>3. Depth(w) + 1 \in Nat /\ Depth(w) < Depth(w) + 1
      BY DepthIsNat
    <3> HIDE DEF Good, upTo
    <3>4. upTo(v)[w] = upTo(w)[w]
      BY <1>2, <3>1, <3>2, <3>3
    <3> QED
      BY <3>4
  <2> HIDE DEF F
  <2>2. B(upTo(v), v) = B(F, v)
    <3> HIDE DEF upTo
    <3> QED
      BY <1>1, <2>1
  <2>3. upTo(v)[v] = B(upTo(v), v)
    <3>1. Depth(v) < Depth(v) + 1
      BY DepthIsNat
    <3>2. Good(upTo(v), Depth(v) + 1)
      BY <1>4
    <3> HIDE DEF upTo
    <3> QED
      BY <3>1, <3>2
  <2> QED
    BY <2>2, <2>3 DEF F
<1>6. F = [v \in Values |-> B(F, v)]
  <2>1. F = [v \in Values |-> F[v]]
    OBVIOUS
  <2> HIDE DEF F
  <2> QED
    BY <1>5, <2>1
<1> HIDE DEF F
<1> QED
  BY <1>6 DEF B, Recursion

-----------------------------------------------------------------------------
(* What the helpers compute *)

\* What is in a value, and what a key of it opens, are values that are less deep.
LEMMA PartsAreLessDeep ==
    ASSUME NEW v \in Values, IsComposite(v), NEW key \in DOMAIN v[2]
    PROVE  /\ v[2][key] \in Values /\ Depth(v[2][key]) < Depth(v)
           /\ ParseKey(v[2][key]) \in Values /\ Depth(ParseKey(v[2][key])) < Depth(v)
           /\ ParseKey(v[2][key])[1] # "json"
<1> DEFINE w == v[2][key]
<1>1. w \in Parts(v)
  BY DEF Parts, IsComposite
<1>2. w \in Values /\ Depth(w) < Depth(v)
  BY <1>1, ValuesAssumption
<1> HIDE DEF w
<1>3. CASE w[1] = "json"
  <2>1. w[2] \in Values /\ Depth(w[2]) < Depth(w) /\ IsComposite(w[2])
    BY <1>2, <1>3, ValuesAssumption DEF Parts
  <2>2. Depth(w[2]) < Depth(v)
    BY <1>2, <2>1, DepthIsNat
  <2> QED
    BY <1>2, <1>3, <2>1, <2>2 DEF ParseKey, IsComposite, w
<1>4. CASE w[1] # "json"
  BY <1>2, <1>4 DEF ParseKey, w
<1> QED
  BY <1>3, <1>4

LEMMA Forms ==
    ASSUME NEW v \in Values
    PROVE  /\ v = <<v[1], v[2]>>
           /\ v[1] \in {"text", "json", "array", "object"}
           /\ IsComposite(v) <=> v[1] = "array" \/ v[1] = "object"
           /\ IsComposite(v) => v[2] = [key \in DOMAIN v[2] |-> v[2][key]]
BY ValuesAssumption DEF IsComposite

LEMMA ParseStringsIs ==
    ParseStrings = [v \in Values |->
        CASE v[1] = "array" ->
                <<"array", [i \in DOMAIN v[2] |-> ParseStrings[v[2][i]]]>>
          [] v[1] = "object" ->
                <<"object", [key \in DOMAIN v[2] |-> ParseStrings[ParseKey(v[2][key])]]>>
          [] OTHER -> v]
<1> DEFINE Child == [v \in Values |-> [key \in IF IsComposite(v) THEN DOMAIN v[2] ELSE {} |->
                        IF v[1] = "object" THEN ParseKey(v[2][key]) ELSE v[2][key]]]
           Step(f, v) ==
              CASE v[1] = "array" -> <<"array", [i \in DOMAIN v[2] |-> f[v[2][i]]]>>
                [] v[1] = "object" ->
                      <<"object", [key \in DOMAIN v[2] |-> f[ParseKey(v[2][key])]]>>
                [] OTHER -> v
<1>1. \A v \in Values : \A key \in DOMAIN Child[v] :
         Child[v][key] \in Values /\ Depth(Child[v][key]) < Depth(v)
  BY PartsAreLessDeep
<1>2. ASSUME NEW f, NEW v \in Values
      PROVE  (IF IsComposite(v) THEN <<v[1], [key \in DOMAIN Child[v] |-> f[Child[v][key]]]>>
              ELSE v) = Step(f, v)
  <2>1. CASE v[1] = "array"
    <3>1. IsComposite(v) /\ Child[v] = [i \in DOMAIN v[2] |-> v[2][i]]
      BY <2>1, Forms
    <3> HIDE DEF Child
    <3>2. [i \in DOMAIN Child[v] |-> f[Child[v][i]]] = [i \in DOMAIN v[2] |-> f[v[2][i]]]
      BY <3>1
    <3> QED
      BY <2>1, <3>1, <3>2
  <2>2. CASE v[1] = "object"
    <3>1. IsComposite(v) /\ Child[v] = [key \in DOMAIN v[2] |-> ParseKey(v[2][key])]
      BY <2>2, Forms
    <3> HIDE DEF Child
    <3>2. [key \in DOMAIN Child[v] |-> f[Child[v][key]]] =
             [key \in DOMAIN v[2] |-> f[ParseKey(v[2][key])]]
      BY <3>1
    <3> QED
      BY <2>2, <3>1, <3>2
  <2>3. CASE v[1] # "array" /\ v[1] # "object"
    BY <2>3, Forms
  <2> QED
    BY <2>1, <2>2, <2>3
<1>3. PICK f : f = [v \in Values |-> Step(f, v)]
  <2> HIDE DEF Child, Step
  <2>1. PICK f : f = [v \in Values |->
           IF IsComposite(v) THEN <<v[1], [key \in DOMAIN Child[v] |-> f[Child[v][key]]]>> ELSE v]
    <3> DEFINE Own == [v \in Values |-> {}]
               how == "rebuild"
    <3>1. how # "collect"
      OBVIOUS
    <3> HIDE DEF Own, how
    <3>2. \E f : f = Recursion(f, Child, Own, how)
      BY <1>1, RecursionExists
    <3> QED
      BY <3>1, <3>2 DEF Recursion
  <2>2. \A v \in Values : f[v] = Step(f, v)
    BY <1>2, <2>1
  <2>3. f = [v \in Values |-> f[v]]
    BY <2>1
  <2> QED
    BY <2>2, <2>3
<1> QED
  BY <1>3 DEF ParseStrings

LEMMA CleanObjectIs ==
    CleanObject = [v \in Values |->
        CASE v[1] = "array" ->
                <<"array", [i \in DOMAIN v[2] |-> CleanObject[v[2][i]]]>>
          [] v[1] = "object" ->
                <<"object", [key \in DOMAIN v[2] \ Timestamps |-> CleanObject[v[2][key]]]>>
          [] OTHER -> v]
<1> DEFINE Kept(v) == CASE v[1] = "array" -> DOMAIN v[2]
                        [] v[1] = "object" -> DOMAIN v[2] \ Timestamps
                        [] OTHER -> {}
           Child == [v \in Values |-> [key \in Kept(v) |-> v[2][key]]]
           Step(f, v) ==
              CASE v[1] = "array" -> <<"array", [i \in DOMAIN v[2] |-> f[v[2][i]]]>>
                [] v[1] = "object" ->
                      <<"object", [key \in DOMAIN v[2] \ Timestamps |-> f[v[2][key]]]>>
                [] OTHER -> v
<1>1. \A v \in Values : \A key \in DOMAIN Child[v] :
         Child[v][key] \in Values /\ Depth(Child[v][key]) < Depth(v)
  <2>1. ASSUME NEW v \in Values, NEW key \in Kept(v)
        PROVE  IsComposite(v) /\ key \in DOMAIN v[2]
    BY <2>1, Forms
  <2> HIDE DEF Kept
  <2> QED
    BY <2>1, PartsAreLessDeep
<1>2. ASSUME NEW f, NEW v \in Values
      PROVE  (IF IsComposite(v) THEN <<v[1], [key \in DOMAIN Child[v] |-> f[Child[v][key]]]>>
              ELSE v) = Step(f, v)
  <2>1. CASE v[1] = "array"
    <3>1. IsComposite(v) /\ Child[v] = [i \in DOMAIN v[2] |-> v[2][i]]
      BY <2>1, Forms
    <3> HIDE DEF Child
    <3>2. [i \in DOMAIN Child[v] |-> f[Child[v][i]]] = [i \in DOMAIN v[2] |-> f[v[2][i]]]
      BY <3>1
    <3> QED
      BY <2>1, <3>1, <3>2
  <2>2. CASE v[1] = "object"
    <3>1. IsComposite(v) /\ Child[v] = [key \in DOMAIN v[2] \ Timestamps |-> v[2][key]]
      BY <2>2, Forms
    <3> HIDE DEF Child
    <3>2. [key \in DOMAIN Child[v] |-> f[Child[v][key]]] =
             [key \in DOMAIN v[2] \ Timestamps |-> f[v[2][key]]]
      BY <3>1
    <3> QED
      BY <2>2, <3>1, <3>2
  <2>3. CASE v[1] # "array" /\ v[1] # "object"
    BY <2>3, Forms
  <2> QED
    BY <2>1, <2>2, <2>3
<1>3. PICK f : f = [v \in Values |-> Step(f, v)]
  <2> HIDE DEF Child, Step
  <2>1. PICK f : f = [v \in Values |->
           IF IsComposite(v) THEN <<v[1], [key \in DOMAIN Child[v] |-> f[Child[v][key]]]>> ELSE v]
    <3> DEFINE Own == [v \in Values |-> {}]
               how == "rebuild"
    <3>1. how # "collect"
      OBVIOUS
    <3> HIDE DEF Own, how
    <3>2. \E f : f = Recursion(f, Child, Own, how)
      BY <1>1, RecursionExists
    <3> QED
      BY <3>1, <3>2 DEF Recursion
  <2>2. \A v \in Values : f[v] = Step(f, v)
    BY <1>2, <2>1
  <2>3. f = [v \in Values |-> f[v]]
    BY <2>1
  <2> QED
    BY <2>2, <2>3
<1> QED
  BY <1>3 DEF CleanObject

LEMMA KeysWithinIs ==
    KeysWithin = [v \in Values |->
        CASE v[1] = "array" -> UNION {KeysWithin[v[2][i]] : i \in DOMAIN v[2]}
          [] v[1] = "object" ->
                DOMAIN v[2] \cup UNION {KeysWithin[v[2][key]] : key \in DOMAIN v[2]}
          [] OTHER -> {}]
<1> DEFINE Own == [v \in Values |-> IF v[1] = "object" THEN DOMAIN v[2] ELSE {}]
           Child == [v \in Values |->
                        [key \in IF IsComposite(v) THEN DOMAIN v[2] ELSE {} |-> v[2][key]]]
           Step(f, v) ==
              CASE v[1] = "array" -> UNION {f[v[2][i]] : i \in DOMAIN v[2]}
                [] v[1] = "object" -> DOMAIN v[2] \cup UNION {f[v[2][key]] : key \in DOMAIN v[2]}
                [] OTHER -> {}
<1>1. \A v \in Values : \A key \in DOMAIN Child[v] :
         Child[v][key] \in Values /\ Depth(Child[v][key]) < Depth(v)
  BY PartsAreLessDeep
<1>2. ASSUME NEW f, NEW v \in Values
      PROVE  Own[v] \cup UNION {f[Child[v][key]] : key \in DOMAIN Child[v]} = Step(f, v)
  <2>1. CASE v[1] = "array"
    <3>1. Own[v] = {} /\ Child[v] = [key \in DOMAIN v[2] |-> v[2][key]]
      BY <2>1, Forms
    <3> HIDE DEF Own, Child
    <3>2. {f[Child[v][key]] : key \in DOMAIN Child[v]} = {f[v[2][i]] : i \in DOMAIN v[2]}
      BY <3>1
    <3> QED
      BY <2>1, <3>1, <3>2
  <2>2. CASE v[1] = "object"
    <3>1. Own[v] = DOMAIN v[2] /\ Child[v] = [key \in DOMAIN v[2] |-> v[2][key]]
      BY <2>2, Forms
    <3> HIDE DEF Own, Child
    <3>2. {f[Child[v][key]] : key \in DOMAIN Child[v]} = {f[v[2][key]] : key \in DOMAIN v[2]}
      BY <3>1
    <3> QED
      BY <2>2, <3>1, <3>2
  <2>3. CASE v[1] # "array" /\ v[1] # "object"
    <3>1. Own[v] = {} /\ DOMAIN Child[v] = {}
      BY <2>3, Forms
    <3> HIDE DEF Own, Child
    <3> QED
      BY <2>3, <3>1
  <2> QED
    BY <2>1, <2>2, <2>3
<1>3. PICK f : f = [v \in Values |-> Step(f, v)]
  <2> HIDE DEF Own, Child, Step
  <2>1. PICK f : f = [v \in Values |->
           Own[v] \cup UNION {f[Child[v][key]] : key \in DOMAIN Child[v]}]
    <3> DEFINE how == "collect"
    <3>1. how = "collect"
      OBVIOUS
    <3> HIDE DEF how
    <3>2. \E f : f = Recursion(f, Child, Own, how)
      BY <1>1, RecursionExists
    <3> QED
      BY <3>1, <3>2 DEF Recursion
  <2>2. \A v \in Values : f[v] = Step(f, v)
    BY <1>2, <2>1
  <2>3. f = [v \in Values |-> f[v]]
    BY <2>1
  <2> QED
    BY <2>2, <2>3
<1> QED
  BY <1>3 DEF KeysWithin

\* One level of each.
LEMMA OneLevel ==
    ASSUME NEW v \in Values
    PROVE  /\ v[1] = "array" =>
                /\ ParseStrings[v] = <<"array", [i \in DOMAIN v[2] |-> ParseStrings[v[2][i]]]>>
                /\ CleanObject[v] = <<"array", [i \in DOMAIN v[2] |-> CleanObject[v[2][i]]]>>
                /\ KeysWithin[v] = UNION {KeysWithin[v[2][i]] : i \in DOMAIN v[2]}
           /\ v[1] = "object" =>
                /\ ParseStrings[v] =
                      <<"object", [key \in DOMAIN v[2] |-> ParseStrings[ParseKey(v[2][key])]]>>
                /\ CleanObject[v] =
                      <<"object", [key \in DOMAIN v[2] \ Timestamps |-> CleanObject[v[2][key]]]>>
                /\ KeysWithin[v] =
                      DOMAIN v[2] \cup UNION {KeysWithin[v[2][key]] : key \in DOMAIN v[2]}
           /\ v[1] \notin {"array", "object"} =>
                ParseStrings[v] = v /\ CleanObject[v] = v /\ KeysWithin[v] = {}
<1>1. /\ v[1] = "array" =>
            ParseStrings[v] = <<"array", [i \in DOMAIN v[2] |-> ParseStrings[v[2][i]]]>>
      /\ v[1] = "object" => ParseStrings[v] =
            <<"object", [key \in DOMAIN v[2] |-> ParseStrings[ParseKey(v[2][key])]]>>
      /\ v[1] \notin {"array", "object"} => ParseStrings[v] = v
  BY ParseStringsIs
<1>2. /\ v[1] = "array" =>
            CleanObject[v] = <<"array", [i \in DOMAIN v[2] |-> CleanObject[v[2][i]]]>>
      /\ v[1] = "object" => CleanObject[v] =
            <<"object", [key \in DOMAIN v[2] \ Timestamps |-> CleanObject[v[2][key]]]>>
      /\ v[1] \notin {"array", "object"} => CleanObject[v] = v
  BY CleanObjectIs
<1>3. /\ v[1] = "array" => KeysWithin[v] = UNION {KeysWithin[v[2][i]] : i \in DOMAIN v[2]}
      /\ v[1] = "object" => KeysWithin[v] =
            DOMAIN v[2] \cup UNION {KeysWithin[v[2][key]] : key \in DOMAIN v[2]}
      /\ v[1] \notin {"array", "object"} => KeysWithin[v] = {}
  BY KeysWithinIs
<1> QED
  BY <1>1, <1>2, <1>3

LEMMA FormsKept ==
    ASSUME NEW v \in Values
    PROVE  /\ ParseStrings[v] \in Values /\ ParseStrings[v][1] = v[1]
           /\ CleanObject[v] \in Values /\ CleanObject[v][1] = v[1]
<1>1. CASE v[1] = "array"
  <2> DEFINE p == [i \in DOMAIN v[2] |-> ParseStrings[v[2][i]]]
             c == [i \in DOMAIN v[2] |-> CleanObject[v[2][i]]]
  <2>1. ParseStrings[v] = <<"array", p>> /\ CleanObject[v] = <<"array", c>>
    BY <1>1, OneLevel
  <2> HIDE DEF p, c
  <2> QED
    BY <1>1, <2>1, ClosedAssumption
<1>2. CASE v[1] = "object"
  <2> DEFINE p == [key \in DOMAIN v[2] |-> ParseStrings[ParseKey(v[2][key])]]
             c == [key \in DOMAIN v[2] \ Timestamps |-> CleanObject[v[2][key]]]
  <2>1. ParseStrings[v] = <<"object", p>> /\ CleanObject[v] = <<"object", c>>
    BY <1>2, OneLevel
  <2> HIDE DEF p, c
  <2> QED
    BY <1>2, <2>1, ClosedAssumption
<1>3. CASE v[1] \notin {"array", "object"}
  BY <1>3, OneLevel
<1> QED
  BY <1>1, <1>2, <1>3

\* At whatever depth, cleaning leaves no timestamp.
LEMMA CleanedHasNoTimestamps ==
    ASSUME NEW value \in Values
    PROVE  KeysWithin[CleanObject[value]] \cap Timestamps = {}
<1> DEFINE T == {v \in Values : KeysWithin[CleanObject[v]] \cap Timestamps # {}}
<1> SUFFICES ASSUME T # {}
             PROVE  FALSE
  OBVIOUS
<1>1. PICK v \in T : \A w \in T : ~(Depth(w) < Depth(v))
  BY Shallowest
<1> DEFINE c == CleanObject[v]
<1>2. v \in Values /\ c \in Values /\ c[1] = v[1] /\ KeysWithin[c] \cap Timestamps # {}
  BY <1>1, FormsKept
<1>3. ASSUME IsComposite(v), NEW key \in DOMAIN v[2]
      PROVE  KeysWithin[CleanObject[v[2][key]]] \cap Timestamps = {}
  <2>1. v[2][key] \in Values /\ v[2][key] \notin T
    BY <1>1, <1>2, <1>3, PartsAreLessDeep
  <2> QED
    BY <2>1
<1> HIDE DEF T
<1>4. CASE v[1] = "array"
  <2>1. c[2] = [i \in DOMAIN v[2] |-> CleanObject[v[2][i]]]
    <3>1. c = <<"array", [i \in DOMAIN v[2] |-> CleanObject[v[2][i]]]>>
      BY <1>2, <1>4, OneLevel
    <3> QED
      BY <3>1
  <2> HIDE DEF c
  <2>2. KeysWithin[c] = UNION {KeysWithin[c[2][i]] : i \in DOMAIN c[2]}
    BY <1>2, <1>4, OneLevel
  <2>3. \A i \in DOMAIN c[2] : KeysWithin[c[2][i]] \cap Timestamps = {}
    BY <1>2, <1>3, <1>4, <2>1, Forms
  <2> QED
    BY <1>2, <2>2, <2>3
<1>5. CASE v[1] = "object"
  <2>1. c[2] = [key \in DOMAIN v[2] \ Timestamps |-> CleanObject[v[2][key]]]
    <3>1. c = <<"object", [key \in DOMAIN v[2] \ Timestamps |-> CleanObject[v[2][key]]]>>
      BY <1>2, <1>5, OneLevel
    <3> QED
      BY <3>1
  <2> HIDE DEF c
  <2>2. KeysWithin[c] = DOMAIN c[2] \cup UNION {KeysWithin[c[2][key]] : key \in DOMAIN c[2]}
    BY <1>2, <1>5, OneLevel
  <2>3. \A key \in DOMAIN c[2] : KeysWithin[c[2][key]] \cap Timestamps = {}
    BY <1>2, <1>3, <1>5, <2>1, Forms
  <2>4. DOMAIN c[2] \cap Timestamps = {}
    BY <2>1
  <2> QED
    BY <1>2, <2>2, <2>3, <2>4
<1>6. CASE v[1] \notin {"array", "object"}
  BY <1>2, <1>6, OneLevel
<1> QED
  BY <1>4, <1>5, <1>6

\* Cleaning is done once: cleaned values stay as they are.
LEMMA CleanedTwice ==
    ASSUME NEW value \in Values
    PROVE  CleanObject[CleanObject[value]] = CleanObject[value]
<1> DEFINE T == {v \in Values : CleanObject[CleanObject[v]] # CleanObject[v]}
<1> SUFFICES ASSUME T # {}
             PROVE  FALSE
  OBVIOUS
<1>1. PICK v \in T : \A w \in T : ~(Depth(w) < Depth(v))
  BY Shallowest
<1> DEFINE c == CleanObject[v]
<1>2. v \in Values /\ c \in Values /\ c[1] = v[1] /\ CleanObject[c] # c
  BY <1>1, FormsKept
<1>3. ASSUME IsComposite(v), NEW key \in DOMAIN v[2]
      PROVE  CleanObject[CleanObject[v[2][key]]] = CleanObject[v[2][key]]
  <2>1. v[2][key] \in Values /\ v[2][key] \notin T
    BY <1>1, <1>2, <1>3, PartsAreLessDeep
  <2> QED
    BY <2>1
<1> HIDE DEF T
<1>4. CASE v[1] = "array"
  <2>1. c = <<"array", [i \in DOMAIN v[2] |-> CleanObject[v[2][i]]]>>
    BY <1>2, <1>4, OneLevel
  <2>2. c[2] = [i \in DOMAIN v[2] |-> CleanObject[v[2][i]]]
    BY <2>1
  <2> HIDE DEF c
  <2>3. CleanObject[c] = <<"array", [i \in DOMAIN c[2] |-> CleanObject[c[2][i]]]>>
    BY <1>2, <1>4, OneLevel
  <2>4. \A i \in DOMAIN v[2] : CleanObject[c[2][i]] = c[2][i]
    BY <1>2, <1>3, <1>4, <2>2, Forms
  <2>5. [i \in DOMAIN c[2] |-> CleanObject[c[2][i]]] = c[2]
    BY <2>2, <2>4
  <2> QED
    BY <1>2, <2>1, <2>2, <2>3, <2>5
<1>5. CASE v[1] = "object"
  <2>1. c = <<"object", [key \in DOMAIN v[2] \ Timestamps |-> CleanObject[v[2][key]]]>>
    BY <1>2, <1>5, OneLevel
  <2>2. c[2] = [key \in DOMAIN v[2] \ Timestamps |-> CleanObject[v[2][key]]]
    BY <2>1
  <2> HIDE DEF c
  <2>3. CleanObject[c] = <<"object", [key \in DOMAIN c[2] \ Timestamps |-> CleanObject[c[2][key]]]>>
    BY <1>2, <1>5, OneLevel
  <2>4. \A key \in DOMAIN v[2] \ Timestamps : CleanObject[c[2][key]] = c[2][key]
    BY <1>2, <1>3, <1>5, <2>2, Forms
  <2>5. [key \in DOMAIN c[2] \ Timestamps |-> CleanObject[c[2][key]]] = c[2]
    BY <2>2, <2>4
  <2>6. c = <<"object", c[2]>>
    BY <2>1, <2>2
  <2> QED
    BY <1>2, <2>3, <2>5, <2>6
<1>6. CASE v[1] \notin {"array", "object"}
  BY <1>2, <1>6, OneLevel
<1> QED
  BY <1>4, <1>5, <1>6

\* And so is parsing, cleaned or not: under a key is no JSON any more.
LEMMA ParsedTwice ==
    ASSUME NEW value \in Values
    PROVE  ParseStrings[ProcessContactCleanup(value)] = ProcessContactCleanup(value)
<1> DEFINE Done(v) == CleanObject[ParseStrings[v]]
           T == {v \in Values : ParseStrings[Done(v)] # Done(v)}
<1> SUFFICES ASSUME T # {}
             PROVE  FALSE
  BY DEF ProcessContactCleanup
<1>1. PICK v \in T : \A w \in T : ~(Depth(w) < Depth(v))
  BY Shallowest
<1> DEFINE p == ParseStrings[v]
           c == CleanObject[p]
<1>2. /\ v \in Values /\ p \in Values /\ c \in Values
      /\ p[1] = v[1] /\ c[1] = v[1]
      /\ ParseStrings[c] # c
  BY <1>1, FormsKept
<1>3. ASSUME IsComposite(v), NEW key \in DOMAIN v[2], NEW w \in {v[2][key], ParseKey(v[2][key])}
      PROVE  w \in Values /\ ParseStrings[Done(w)] = Done(w)
  <2>1. w \in Values /\ w \notin T
    BY <1>1, <1>2, <1>3, PartsAreLessDeep
  <2> QED
    BY <2>1
<1> HIDE DEF T
<1>4. CASE v[1] = "array"
  <2>1. p[2] = [i \in DOMAIN v[2] |-> ParseStrings[v[2][i]]]
    <3>1. p = <<"array", [i \in DOMAIN v[2] |-> ParseStrings[v[2][i]]]>>
      BY <1>2, <1>4, OneLevel
    <3> QED
      BY <3>1
  <2> HIDE DEF p
  <2>2. c = <<"array", [i \in DOMAIN p[2] |-> CleanObject[p[2][i]]]>>
    BY <1>2, <1>4, OneLevel
  <2>3. c[2] = [i \in DOMAIN p[2] |-> CleanObject[p[2][i]]]
    BY <2>2
  <2> HIDE DEF c
  <2>4. ParseStrings[c] = <<"array", [i \in DOMAIN c[2] |-> ParseStrings[c[2][i]]]>>
    BY <1>2, <1>4, OneLevel
  <2>5. \A i \in DOMAIN v[2] : ParseStrings[c[2][i]] = c[2][i]
    <3>1. IsComposite(v)
      BY <1>2, <1>4, Forms
    <3>2. \A i \in DOMAIN v[2] : c[2][i] = Done(v[2][i])
      BY <2>1, <2>3
    <3>3. \A i \in DOMAIN v[2] : ParseStrings[Done(v[2][i])] = Done(v[2][i])
      BY <1>3, <3>1
    <3> QED
      BY <3>2, <3>3
  <2>6. [i \in DOMAIN c[2] |-> ParseStrings[c[2][i]]] = c[2]
    BY <2>1, <2>3, <2>5
  <2> QED
    BY <1>2, <2>2, <2>3, <2>4, <2>6
<1>5. CASE v[1] = "object"
  <2>1. p[2] = [key \in DOMAIN v[2] |-> ParseStrings[ParseKey(v[2][key])]]
    <3>1. p = <<"object", [key \in DOMAIN v[2] |-> ParseStrings[ParseKey(v[2][key])]]>>
      BY <1>2, <1>5, OneLevel
    <3> QED
      BY <3>1
  <2> HIDE DEF p
  <2>2. c = <<"object", [key \in DOMAIN p[2] \ Timestamps |-> CleanObject[p[2][key]]]>>
    BY <1>2, <1>5, OneLevel
  <2>3. c[2] = [key \in DOMAIN p[2] \ Timestamps |-> CleanObject[p[2][key]]]
    BY <2>2
  <2> HIDE DEF c
  <2>4. ParseStrings[c] = <<"object", [key \in DOMAIN c[2] |-> ParseStrings[ParseKey(c[2][key])]]>>
    BY <1>2, <1>5, OneLevel
  <2>5. ASSUME NEW key \in DOMAIN c[2]
        PROVE  ParseStrings[ParseKey(c[2][key])] = c[2][key]
    <3> DEFINE w == ParseKey(v[2][key])
    <3>1. key \in DOMAIN v[2] /\ c[2][key] = Done(w)
      BY <2>1, <2>3, <2>5
    <3>2. w \in Values /\ w[1] # "json" /\ ParseStrings[Done(w)] = Done(w)
      BY <1>2, <1>3, <1>5, <3>1, Forms, PartsAreLessDeep
    <3> HIDE DEF w
    <3>3. Done(w)[1] # "json"
      BY <3>2, FormsKept
    <3> QED
      BY <3>1, <3>2, <3>3 DEF ParseKey
  <2>6. [key \in DOMAIN c[2] |-> ParseStrings[ParseKey(c[2][key])]] = c[2]
    <3>1. c[2] = [key \in DOMAIN c[2] |-> c[2][key]]
      BY <2>3
    <3> QED
      BY <2>5, <3>1
  <2> QED
    BY <1>2, <2>2, <2>3, <2>4, <2>6
<1>6. CASE v[1] \notin {"array", "object"}
  BY <1>2, <1>6, OneLevel
<1> QED
  BY <1>4, <1>5, <1>6

\* What the import makes of a value, at whatever depth its JSON is.
LEMMA CleanupIsFinal ==
    ASSUME NEW v \in Values
    PROVE  /\ ProcessContactCleanup(v) \in Values
           /\ KeysWithin[ProcessContactCleanup(v)] \cap Timestamps = {}
           /\ ProcessContactCleanup(ProcessContactCleanup(v)) = ProcessContactCleanup(v)
<1>1. ParseStrings[v] \in Values /\ CleanObject[ParseStrings[v]] \in Values
  BY FormsKept
<1>2. ParseStrings[CleanObject[ParseStrings[v]]] = CleanObject[ParseStrings[v]]
  BY ParsedTwice DEF ProcessContactCleanup
<1> QED
  BY <1>1, <1>2, CleanedHasNoTimestamps, CleanedTwice DEF ProcessContactCleanup

-----------------------------------------------------------------------------
(* Files and rows *)

\* A function on the first n numbers is a sequence.
LEMMA SequenceOf ==
    ASSUME NEW n \in Nat, NEW f, DOMAIN f = 1 .. n, f = [i \in 1 .. n |-> f[i]], NEW S,
           \A i \in 1 .. n : f[i] \in S
    PROVE  f \in Seq(S) /\ Len(f) = n
<1>1. f \in [1 .. n -> S]
  OBVIOUS
<1> QED
  BY <1>1, SeqDef, LenProperties

\* A text in a row stays as it is, under every key but those left out.
LEMMA TextsStay ==
    ASSUME NEW v \in Values, v[1] = "object"
    PROVE  /\ ProcessContactCleanup(v)[1] = "object"
           /\ DOMAIN ProcessContactCleanup(v)[2] = DOMAIN v[2] \ Timestamps
           /\ \A key \in DOMAIN v[2] \ Timestamps :
                 v[2][key][1] = "text" => ProcessContactCleanup(v)[2][key] = v[2][key]
<1> DEFINE parsed == [key \in DOMAIN v[2] |-> ParseStrings[ParseKey(v[2][key])]]
           p == ParseStrings[v]
<1>1. p = <<"object", parsed>> /\ p \in Values
  BY OneLevel, FormsKept
<1> HIDE DEF parsed, p
<1>2. p[1] = "object" /\ p[2] = parsed
  BY <1>1
<1> DEFINE cleaned == [key \in DOMAIN p[2] \ Timestamps |-> CleanObject[p[2][key]]]
           c == CleanObject[p]
<1>3. c = <<"object", cleaned>>
  BY <1>1, <1>2, OneLevel
<1> HIDE DEF cleaned, c
<1>4. c[1] = "object" /\ c[2] = cleaned
  BY <1>3
<1>5. DOMAIN parsed = DOMAIN v[2] /\ DOMAIN cleaned = DOMAIN v[2] \ Timestamps
  BY <1>2 DEF parsed, cleaned
<1>6. ASSUME NEW key \in DOMAIN v[2] \ Timestamps, v[2][key][1] = "text"
      PROVE  cleaned[key] = v[2][key]
  <2>1. v[2][key] \in Values /\ ParseKey(v[2][key]) = v[2][key]
    BY <1>6, PartsAreLessDeep DEF ParseKey, IsComposite
  <2>2. ParseStrings[v[2][key]] = v[2][key] /\ CleanObject[v[2][key]] = v[2][key]
    BY <1>6, <2>1, OneLevel
  <2>3. parsed[key] = v[2][key]
    BY <2>1, <2>2 DEF parsed
  <2> QED
    BY <1>2, <1>5, <2>2, <2>3 DEF cleaned
<1>7. ProcessContactCleanup(v) = c
  BY DEF ProcessContactCleanup, c, p
<1> QED
  BY <1>4, <1>5, <1>6, <1>7

\* Cleaning leaves ids and names as they are, and of the other columns only a part.
LEMMA CleanedRow ==
    ASSUME NEW v, IsRow(v)
    PROVE  /\ IsRow(ProcessContactCleanup(v))
           /\ \A key \in {"id", "firstName"} :
                 key \in DOMAIN ProcessContactCleanup(v)[2] <=> key \in DOMAIN v[2]
           /\ "id" \in DOMAIN v[2] => ProcessContactCleanup(v)[2].id = v[2].id
<1> DEFINE w == ProcessContactCleanup(v)
<1>1. /\ w \in Values /\ w[1] = "object"
      /\ DOMAIN w[2] = DOMAIN v[2] \ Timestamps
      /\ \A key \in DOMAIN v[2] \ Timestamps : v[2][key][1] = "text" => w[2][key] = v[2][key]
  BY TextsStay, CleanupIsFinal DEF IsRow
<1> HIDE DEF w
<1>2. \A key \in {"id", "firstName"} : key \in DOMAIN w[2] <=> key \in DOMAIN v[2]
  BY <1>1 DEF Timestamps
<1>3. ASSUME "id" \in DOMAIN v[2]
      PROVE  w[2].id = v[2].id
  <2>1. PICK c \in Ids : v[2].id = <<"text", c>>
    BY <1>3 DEF IsRow
  <2> QED
    BY <1>1, <1>2, <1>3, <2>1
<1>4. ASSUME "firstName" \in DOMAIN v[2]
      PROVE  w[2].firstName = v[2].firstName
  <2>1. PICK name \in Names : v[2].firstName = <<"text", name>>
    BY <1>4 DEF IsRow
  <2> QED
    BY <1>1, <1>2, <1>4, <2>1
<1> QED
  BY <1>1, <1>2, <1>3, <1>4 DEF IsRow, w

\* What the parser finds in a file are rows, with the separator of the file or without.
LEMMA ParsedAreRows ==
    ASSUME NEW file, IsFile(file), NEW separator
    PROVE  /\ DOMAIN ParsedRows(file, separator) = 1 .. Len(file.rows)
           /\ \A n \in DOMAIN ParsedRows(file, separator) :
                 /\ IsRow(ParsedRows(file, separator)[n])
                 /\ \/ ParsedRows(file, separator)[n] = file.rows[n]
                    \/ "firstName" \notin DOMAIN ParsedRows(file, separator)[n][2]
<1>1. CASE separator = file.separator
  BY <1>1 DEF ParsedRows, IsFile
<1>2. CASE separator # file.separator
  BY <1>2, RowsAssumption DEF ParsedRows, IsFile, IsRow, RowUnseparated
<1> QED
  BY <1>1, <1>2

-----------------------------------------------------------------------------
(* The invariant *)

\* The table: the part of the type invariant, and what the sequence has to do with it,
\* namely that an id beyond it is taken only if a file has named it.
TableOK ==
    /\ contact \in [Ids -> Row]
    /\ sequence \in 0 .. MaxId
    /\ \A c \in Ids : contact[c].state # "absent" =>
          contact[c].owner # None /\ contact[c].firstName # None

TakenBySequence ==
    \A c \in Ids : contact[c].state # "absent" /\ ~contact[c].named => c <= sequence

\* What can be inserted of these rows has an id that is taken.  So it is in every
\* export, and rows are never taken out of the table.
IdsTaken(contents, table) ==
    \A n \in DOMAIN contents : "firstName" \in DOMAIN contents[n][2] =>
        "id" \in DOMAIN contents[n][2] /\ table[contents[n][2].id[2]].state # "absent"

ExportOK ==
    exported # None => /\ IsFile(exported)
                       /\ exported.rows # <<>>
                       /\ IdsTaken(exported.rows, contact)

\* A request: its part of the type invariant; its job is what Job makes of it, but
\* for the separator; and if its file is an export, the ids in it are taken.
RequestOK(place, j, contents, table) ==
    /\ place \in {"idle", "detect", "parse", "insert"}
    /\ place = "idle" => j = None
    /\ place # "idle" =>
          /\ j.user \in Users
          /\ IsFile(j.file)
          /\ j = [Job(j.user, j.file, j.isExport) EXCEPT !.separator = j.separator]
          /\ j.isExport => IdsTaken(j.file.rows, table) /\ IdsTaken(contents, table)
    /\ place # "insert" => contents = <<>>
    /\ Len(contents) \in Nat /\ DOMAIN contents = 1 .. Len(contents)
    /\ contents = [i \in DOMAIN contents |-> contents[i]]
    /\ \A i \in DOMAIN contents : IsRow(contents[i])

TransferInv ==
    /\ TableOK
    /\ TakenBySequence
    /\ ExportOK
    /\ DOMAIN pc = Requests /\ pc = [p \in Requests |-> pc[p]]
    /\ DOMAIN job = Requests /\ job = [p \in Requests |-> job[p]]
    /\ DOMAIN rows = Requests /\ rows = [p \in Requests |-> rows[p]]
    /\ \A p \in Requests : RequestOK(pc[p], job[p], rows[p], contact)

LEMMA InvIsTyped == TransferInv => TransferTypeOK
BY DEF TransferInv, TransferTypeOK, TableOK, ExportOK, RequestOK

LEMMA InitInv == Init => TransferInv
<1> SUFFICES ASSUME Init
             PROVE  TransferInv
  OBVIOUS
<1>1. TableOK /\ TakenBySequence /\ ExportOK
  BY MaxIdAssumption DEF Init, TableOK, TakenBySequence, ExportOK, Row
<1>2. \A p \in Requests : RequestOK(pc[p], job[p], rows[p], contact)
  BY DEF Init, RequestOK
<1> QED
  BY <1>1, <1>2 DEF TransferInv, Init

-----------------------------------------------------------------------------
(* The steps *)

\* What is exported of live contacts is a file with rows, and their ids are taken.
LEMMA ExportIsFile ==
    ASSUME TransferTypeOK, NEW u \in Users, NEW ids \in SUBSET Ids, ExportContacts(u, ids)
    PROVE  /\ IsFile(exported')
           /\ exported'.rows # <<>>
           /\ IdsTaken(exported'.rows, contact)
<1> DEFINE matching == {c \in ids : contact[c].state = "live" /\ contact[c].owner = u}
           k == Cardinality(matching)
<1>1. IsFiniteSet(matching)
  <2>1. IsFiniteSet(Ids)
    BY FS_Interval, MaxIdAssumption DEF Ids
  <2>2. matching \subseteq Ids
    OBVIOUS
  <2> QED
    BY <2>1, <2>2, FS_Subset
<1>2. k \in Nat /\ k # 0
  <2>1. matching # {}
    BY DEF ExportContacts
  <2> QED
    BY <1>1, <2>1, FS_CardinalityType, FS_EmptySet
<1>3. PICK found \in [1 .. k -> matching] :
         exported' = [separator |-> ",",
                      lines |-> [n \in 1 .. k + 1 |-> <<"x", ",", "x", ",", "x", ",", "x">>],
                      rows |-> [n \in DOMAIN found |-> ExportedRow(found[n], contact[found[n]].firstName)]]
  BY DEF ExportContacts
<1>4. \A n \in 1 .. k : found[n] \in Ids /\ contact[found[n]].state = "live"
  BY <1>3
<1> HIDE DEF matching, k
<1>5. /\ exported'.separator = ","
      /\ exported'.lines = [n \in 1 .. k + 1 |-> <<"x", ",", "x", ",", "x", ",", "x">>]
      /\ exported'.rows = [n \in 1 .. k |-> ExportedRow(found[n], contact[found[n]].firstName)]
  BY <1>3
<1>6. Len(exported'.rows) = k /\ exported'.rows # <<>>
  <2> DEFINE f == exported'.rows
             S == {ExportedRow(found[n], contact[found[n]].firstName) : n \in 1 .. k}
  <2>1. DOMAIN f = 1 .. k /\ f = [i \in 1 .. k |-> f[i]] /\ \A i \in 1 .. k : f[i] \in S
    BY <1>5
  <2> HIDE DEF f, S
  <2>2. Len(f) = k
    BY <1>2, <2>1, SequenceOf
  <2> QED
    BY <1>2, <2>2 DEF f
<1>7. ASSUME NEW c \in Ids, contact[c].state = "live"
      PROVE  /\ IsRow(ExportedRow(c, contact[c].firstName))
             /\ "id" \in DOMAIN ExportedRow(c, contact[c].firstName)[2]
             /\ ExportedRow(c, contact[c].firstName)[2].id[2] = c
  <2>1. contact[c].firstName \in Names
    BY <1>7 DEF TransferTypeOK, Row
  <2>2. ExportedRow(c, contact[c].firstName) \in Values
    BY <2>1, RowsAssumption
  <2> QED
    BY <2>1, <2>2 DEF ExportedRow, IsRow
<1>8. exported'.lines \in Seq(Seq(Symbols))
  <2> DEFINE line == <<"x", ",", "x", ",", "x", ",", "x">>
  <2>1. line \in Seq(Symbols)
    <3>1. DOMAIN line = 1 .. 7
      OBVIOUS
    <3>2. \A i \in 1 .. 7 : i = 1 \/ i = 2 \/ i = 3 \/ i = 4 \/ i = 5 \/ i = 6 \/ i = 7
      OBVIOUS
    <3>3. \A i \in 1 .. 7 : line[i] \in Symbols
      <4>1. "x" \in Symbols /\ "," \in Symbols
        BY DEF Symbols
      <4>2. /\ line[1] = "x" /\ line[2] = "," /\ line[3] = "x" /\ line[4] = ","
            /\ line[5] = "x" /\ line[6] = "," /\ line[7] = "x"
        OBVIOUS
      <4> HIDE DEF line
      <4> QED
        BY <3>2, <4>1, <4>2
    <3>4. line = [i \in 1 .. 7 |-> line[i]]
      BY <3>1
    <3> HIDE DEF line
    <3> QED
      BY <3>1, <3>3, <3>4, SequenceOf
  <2>2. k + 1 \in Nat
    BY <1>2
  <2>3. exported'.lines = [n \in 1 .. k + 1 |-> line]
    BY <1>5
  <2> HIDE DEF line
  <2>4. /\ DOMAIN exported'.lines = 1 .. k + 1
        /\ exported'.lines = [n \in 1 .. k + 1 |-> exported'.lines[n]]
        /\ \A n \in 1 .. k + 1 : exported'.lines[n] \in Seq(Symbols)
    BY <2>1, <2>3
  <2> QED
    BY <2>2, <2>4, SequenceOf
<1>9. exported'.separator \in {Separators[s] : s \in DOMAIN Separators}
  <2>1. 1 \in DOMAIN Separators /\ Separators[1] = ","
    BY DEF Separators
  <2> QED
    BY <1>5, <2>1
<1>10. DOMAIN exported'.rows = 1 .. k
       /\ \A n \in 1 .. k : exported'.rows[n] = ExportedRow(found[n], contact[found[n]].firstName)
  BY <1>5
<1>11. \A n \in 1 .. k : /\ IsRow(exported'.rows[n])
                         /\ "id" \in DOMAIN exported'.rows[n][2]
                         /\ contact[exported'.rows[n][2].id[2]].state # "absent"
  BY <1>4, <1>7, <1>10
<1> QED
  BY <1>2, <1>6, <1>8, <1>9, <1>10, <1>11 DEF IsFile, IdsTaken

\* The table after any step: what is taken stays taken, as it is named.
RowsGrow ==
    \A c \in Ids : contact[c].state # "absent" =>
        /\ contact'[c].state # "absent"
        /\ contact'[c].named = contact[c].named

\* An insert without an id.
LEMMA NextIsInserted ==
    ASSUME TableOK, TakenBySequence, NEW u \in Users, NEW name \in Names, InsertNext(u, name)
    PROVE  /\ RowsGrow
           /\ TableOK'
           /\ TakenBySequence'
           /\ \/ UNCHANGED contact /\ contact[sequence'].named
              \/ /\ contact[sequence'].state = "absent" /\ sequence' \in Ids
                 /\ contact' = [contact EXCEPT ![sequence'] = contact'[sequence']]
                 /\ contact'[sequence'].owner = u
                 /\ contact'[sequence'].firstName = name
                 /\ contact'[sequence'].state = "live"
<1> DEFINE row == [state |-> "live", owner |-> u, firstName |-> name, named |-> FALSE]
<1>1. row \in Row /\ row.owner # None /\ row.firstName # None
  BY NoneAssumption DEF Row
<1>2. sequence \in Nat /\ sequence' = sequence + 1 /\ sequence' \in Ids
  BY MaxIdAssumption DEF InsertNext, TableOK
<1>3. CASE contact[sequence'].state # "absent"
  <2>1. contact' = contact
    BY <1>2, <1>3 DEF InsertNext
  <2>2. contact[sequence'].named
    BY <1>2, <1>3 DEF TakenBySequence, Ids, TableOK, Row
  <2> QED
    BY <1>2, <2>1, <2>2, MaxIdAssumption DEF RowsGrow, TableOK, TakenBySequence, Ids
<1>4. CASE contact[sequence'].state = "absent"
  <2>1. contact' = [contact EXCEPT ![sequence'] = row]
    BY <1>2, <1>4 DEF InsertNext
  <2> HIDE DEF row
  <2>2. row.state = "live" /\ row.owner = u /\ row.firstName = name
    BY DEF row
  <2>3. \A c \in Ids : contact'[c] = IF c = sequence' THEN row ELSE contact[c]
    BY <2>1 DEF TableOK
  <2>4. contact' \in [Ids -> Row]
    BY <1>1, <2>1 DEF TableOK
  <2>5. contact' = [contact EXCEPT ![sequence'] = contact'[sequence']]
    BY <1>2, <2>1, <2>3
  <2>6. TableOK'
    BY <1>1, <1>2, <2>3, <2>4, MaxIdAssumption DEF TableOK, Ids
  <2>7. RowsGrow
    BY <1>4, <2>3 DEF RowsGrow
  <2>8. TakenBySequence'
    BY <1>2, <2>3 DEF TakenBySequence, Ids
  <2> QED
    BY <1>2, <1>4, <2>2, <2>3, <2>5, <2>6, <2>7, <2>8
<1> QED
  BY <1>3, <1>4

\* An insert with an id.
LEMMA NamedIsInserted ==
    ASSUME TableOK, TakenBySequence, NEW u \in Users, NEW row, IsRow(<<"object", row>>),
           "firstName" \in DOMAIN row, InsertRow(u, row), IdOf(row) # None
    PROVE  /\ RowsGrow
           /\ TableOK'
           /\ TakenBySequence'
           /\ sequence' = sequence
           /\ \/ UNCHANGED contact
              \/ /\ contact[IdOf(row)].state = "absent" /\ IdOf(row) \in Ids
                 /\ contact' = [contact EXCEPT ![IdOf(row)] = contact'[IdOf(row)]]
                 /\ contact'[IdOf(row)].owner = u
                 /\ contact'[IdOf(row)].firstName = row.firstName[2]
                 /\ contact'[IdOf(row)].state # "absent"
<1> DEFINE id == IdOf(row)
           new == [state |-> "live", owner |-> u, firstName |-> row.firstName[2], named |-> TRUE]
<1>0. "id" \in DOMAIN row /\ id \in Ids /\ row.firstName[2] \in Names
  BY DEF IdOf, IsRow
<1>1. new \in Row /\ new.owner # None /\ new.firstName # None
  BY <1>0, NoneAssumption DEF Row
<1>2. sequence' = sequence
  BY DEF InsertRow
<1>3. CASE contact[id].state # "absent"
  <2>1. contact' = contact
    BY <1>3 DEF InsertRow
  <2> QED
    BY <1>2, <2>1 DEF RowsGrow, TableOK, TakenBySequence
<1>4. CASE contact[id].state = "absent"
  <2>1. contact' = [contact EXCEPT ![id] = new]
    BY <1>4 DEF InsertRow
  <2>2. /\ new.named /\ new.owner = u /\ new.firstName = row.firstName[2]
        /\ new.state # "absent"
    OBVIOUS
  <2> HIDE DEF new, id
  <2>3. \A c \in Ids : contact'[c] = IF c = id THEN new ELSE contact[c]
    BY <2>1 DEF TableOK
  <2>4. contact' \in [Ids -> Row]
    BY <1>1, <2>1 DEF TableOK
  <2>5. contact' = [contact EXCEPT ![id] = contact'[id]]
    BY <1>0, <2>1, <2>3
  <2>6. TableOK'
    BY <1>1, <1>2, <2>3, <2>4 DEF TableOK
  <2>7. RowsGrow
    BY <1>4, <2>3 DEF RowsGrow
  <2>8. TakenBySequence'
    BY <1>2, <2>2, <2>3 DEF TakenBySequence
  <2>9. contact'[id] = new
    BY <1>0, <2>3
  <2>10. contact[id].state = "absent" /\ id \in Ids
    BY <1>0, <1>4
  <2>11. /\ contact'[id].owner = u /\ contact'[id].firstName = row.firstName[2]
         /\ contact'[id].state # "absent"
    BY <2>2, <2>9
  <2> QED
    BY <1>2, <2>5, <2>6, <2>7, <2>8, <2>10, <2>11 DEF id
<1> QED
  BY <1>3, <1>4

LEMMA TakenStays ==
    ASSUME RowsGrow, NEW contents, \A n \in DOMAIN contents : IsRow(contents[n]),
           IdsTaken(contents, contact)
    PROVE  IdsTaken(contents, contact')
<1> SUFFICES ASSUME NEW n \in DOMAIN contents, "firstName" \in DOMAIN contents[n][2]
             PROVE  /\ "id" \in DOMAIN contents[n][2]
                    /\ contact'[contents[n][2].id[2]].state # "absent"
  BY DEF IdsTaken
<1>1. "id" \in DOMAIN contents[n][2] /\ contact[contents[n][2].id[2]].state # "absent"
  BY DEF IdsTaken
<1>2. contents[n][2].id[2] \in Ids
  BY <1>1 DEF IsRow
<1> QED
  BY <1>1, <1>2 DEF RowsGrow

LEMMA RequestStays ==
    ASSUME RowsGrow, NEW place, NEW j, NEW contents, RequestOK(place, j, contents, contact)
    PROVE  RequestOK(place, j, contents, contact')
<1>1. ASSUME place # "idle", j.isExport
      PROVE  IdsTaken(j.file.rows, contact') /\ IdsTaken(contents, contact')
  <2>1. IdsTaken(j.file.rows, contact) /\ IdsTaken(contents, contact)
    BY <1>1 DEF RequestOK
  <2>2. \A n \in DOMAIN j.file.rows : IsRow(j.file.rows[n])
    BY <1>1 DEF RequestOK, IsFile
  <2>3. \A n \in DOMAIN contents : IsRow(contents[n])
    BY DEF RequestOK
  <2> QED
    BY <2>1, <2>2, <2>3, TakenStays
<1> QED
  BY <1>1 DEF RequestOK

LEMMA ExportStays ==
    ASSUME RowsGrow, UNCHANGED exported, ExportOK
    PROVE  ExportOK'
<1> SUFFICES ASSUME exported # None
             PROVE  IdsTaken(exported.rows, contact')
  BY DEF ExportOK
<1>1. \A n \in DOMAIN exported.rows : IsRow(exported.rows[n])
  BY DEF ExportOK, IsFile
<1> QED
  BY <1>1, TakenStays DEF ExportOK

\* A step of the table.
LEMMA TableMoves ==
    ASSUME TransferInv, TableOK', TakenBySequence', RowsGrow, UNCHANGED <<exported, pc, job, rows>>
    PROVE  TransferInv'
<1>1. ExportOK'
  BY ExportStays DEF TransferInv
<1>2. \A p \in Requests : RequestOK(pc[p], job[p], rows[p], contact')
  BY RequestStays DEF TransferInv
<1> QED
  BY <1>1, <1>2 DEF TransferInv

\* A step of import p, and of the table, has only to leave p and the table well-formed.
LEMMA ImportMoves ==
    ASSUME TransferInv, TableOK', TakenBySequence', RowsGrow, UNCHANGED exported,
           NEW p \in Requests, NEW place, NEW j, NEW contents,
           pc' = [pc EXCEPT ![p] = place],
           job' = [job EXCEPT ![p] = j],
           rows' = [rows EXCEPT ![p] = contents],
           RequestOK(place, j, contents, contact')
    PROVE  TransferInv'
<1>1. ExportOK'
  BY ExportStays DEF TransferInv
<1>2. ASSUME NEW q \in Requests
      PROVE  RequestOK(pc'[q], job'[q], rows'[q], contact')
  <2>1. CASE q = p
    BY <2>1 DEF TransferInv
  <2>2. CASE q # p
    <3>1. RequestOK(pc[q], job[q], rows[q], contact')
      BY RequestStays DEF TransferInv
    <3> QED
      BY <2>2, <3>1 DEF TransferInv
  <2> QED
    BY <2>1, <2>2
<1>3. /\ DOMAIN pc' = Requests /\ pc' = [q \in Requests |-> pc'[q]]
      /\ DOMAIN job' = Requests /\ job' = [q \in Requests |-> job'[q]]
      /\ DOMAIN rows' = Requests /\ rows' = [q \in Requests |-> rows'[q]]
  BY DEF TransferInv
<1> QED
  BY <1>1, <1>2, <1>3 DEF TransferInv

LEMMA TableRests ==
    ASSUME TableOK, TakenBySequence, UNCHANGED <<contact, sequence>>
    PROVE  TableOK' /\ TakenBySequence' /\ RowsGrow
BY DEF TableOK, TakenBySequence, RowsGrow

LEMMA CreateInv ==
    ASSUME TransferInv, NEW u \in Users, NEW name \in Names, Create(u, name)
    PROVE  TransferInv'
<1>1. TableOK' /\ TakenBySequence' /\ RowsGrow
  BY NextIsInserted DEF Create, TransferInv
<1> QED
  BY <1>1, TableMoves DEF Create

LEMMA RemoveInv ==
    ASSUME TransferInv, NEW u \in Users, NEW c \in Ids, Remove(u, c)
    PROVE  TransferInv'
<1>1. contact \in [Ids -> Row] /\ contact[c].state = "live"
  BY DEF TransferInv, TableOK, Remove
<1>2. \A d \in Ids : /\ contact'[d].owner = contact[d].owner
                     /\ contact'[d].firstName = contact[d].firstName
                     /\ contact'[d].named = contact[d].named
                     /\ contact'[d].state = IF d = c THEN "deleted" ELSE contact[d].state
  BY <1>1 DEF Remove, Row
<1>3. contact' \in [Ids -> Row]
  BY <1>1 DEF Remove, Row
<1>4. TableOK' /\ TakenBySequence' /\ RowsGrow
  BY <1>1, <1>2, <1>3 DEF TransferInv, TableOK, TakenBySequence, RowsGrow, Remove
<1> QED
  BY <1>4, TableMoves DEF Remove

LEMMA ExportInv ==
    ASSUME TransferInv, NEW u \in Users, NEW ids \in SUBSET Ids, ExportContacts(u, ids)
    PROVE  TransferInv'
<1>1. UNCHANGED <<contact, sequence, pc, job, rows>>
  BY DEF ExportContacts
<1>2. ExportOK'
  BY <1>1, InvIsTyped, ExportIsFile DEF ExportOK
<1>3. TableOK' /\ TakenBySequence'
  BY <1>1 DEF TransferInv, TableOK, TakenBySequence
<1> QED
  BY <1>1, <1>2, <1>3 DEF TransferInv

LEMMA ArrivalInv ==
    ASSUME TransferInv, NEW p \in Requests, NEW u \in Users, NEW file, NEW isExport \in BOOLEAN,
           ImportContacts(p, u, file, isExport), IsFile(file),
           isExport => IdsTaken(file.rows, contact)
    PROVE  TransferInv'
<1> DEFINE j == Job(u, file, isExport)
<1>1. /\ j.user = u /\ j.file = file /\ j.isExport = isExport
      /\ j = [Job(j.user, j.file, j.isExport) EXCEPT !.separator = j.separator]
  BY DEF Job
<1>2. /\ UNCHANGED <<contact, sequence, exported>>
      /\ pc' = [pc EXCEPT ![p] = "detect"]
      /\ job' = [job EXCEPT ![p] = j]
      /\ rows' = rows
  BY DEF ImportContacts
<1> HIDE DEF j
<1>3. rows[p] = <<>>
  BY DEF TransferInv, RequestOK, ImportContacts
<1>4. rows' = [rows EXCEPT ![p] = <<>>]
  BY <1>2, <1>3 DEF TransferInv
<1>5. RequestOK("detect", j, <<>>, contact')
  BY <1>1, <1>2 DEF RequestOK, IdsTaken
<1>6. TableOK' /\ TakenBySequence' /\ RowsGrow
  BY <1>2, TableRests DEF TransferInv
<1> QED
  BY <1>2, <1>4, <1>5, <1>6, ImportMoves

\* The answer: the import leaves nothing behind.
LEMMA EndInv ==
    ASSUME TransferInv, TableOK', TakenBySequence', RowsGrow, UNCHANGED exported,
           NEW p \in Requests, End(p)
    PROVE  TransferInv'
<1>1. RequestOK("idle", None, <<>>, contact')
  BY DEF RequestOK
<1> QED
  BY <1>1, ImportMoves DEF End

LEMMA DetectInv ==
    ASSUME TransferInv, NEW p \in Requests, Detect(p)
    PROVE  TransferInv'
<1>1. UNCHANGED <<contact, sequence, exported>>
  BY DEF Detect
<1>2. TableOK' /\ TakenBySequence' /\ RowsGrow
  BY <1>1, TableRests DEF TransferInv
<1>3. CASE End(p)
  BY <1>1, <1>2, <1>3, EndInv
<1>4. CASE ~End(p)
  <2> DEFINE separator == DetectSeparator(job[p].file.lines)
             j == [job[p] EXCEPT !.separator = separator]
  <2>1. RequestOK("detect", job[p], rows[p], contact)
    BY DEF TransferInv, Detect
  <2>2. /\ pc' = [pc EXCEPT ![p] = "parse"]
        /\ job' = [job EXCEPT ![p] = j]
        /\ rows' = rows
    BY <1>4 DEF Detect
  <2> HIDE DEF separator
  <2>3. /\ j.user = job[p].user /\ j.file = job[p].file /\ j.isExport = job[p].isExport
        /\ j = [Job(j.user, j.file, j.isExport) EXCEPT !.separator = j.separator]
    BY <2>1 DEF RequestOK, Job
  <2> HIDE DEF j
  <2>4. RequestOK("parse", j, rows[p], contact)
    BY <2>1, <2>3 DEF RequestOK
  <2>5. rows' = [rows EXCEPT ![p] = rows[p]]
    BY <2>2 DEF TransferInv
  <2> QED
    BY <1>1, <1>2, <2>2, <2>4, <2>5, ImportMoves
<1> QED
  BY <1>3, <1>4

LEMMA ParseInv ==
    ASSUME TransferInv, NEW p \in Requests, Parse(p)
    PROVE  TransferInv'
<1> DEFINE file == job[p].file
           parsed == ParsedRows(file, job[p].separator)
           cleaned == [n \in DOMAIN parsed |-> ProcessContactCleanup(parsed[n])]
<1>1. /\ UNCHANGED <<contact, sequence, exported, job>>
      /\ pc' = [pc EXCEPT ![p] = "insert"]
      /\ rows' = [rows EXCEPT ![p] = cleaned]
  BY DEF Parse
<1>2. TableOK' /\ TakenBySequence' /\ RowsGrow
  BY <1>1, TableRests DEF TransferInv
<1>3. RequestOK("parse", job[p], rows[p], contact)
  BY DEF TransferInv, Parse
<1>4. IsFile(file)
  BY <1>3 DEF RequestOK
<1>5. /\ DOMAIN parsed = 1 .. Len(file.rows) /\ Len(file.rows) \in Nat
      /\ \A n \in DOMAIN parsed :
            IsRow(parsed[n]) /\ (parsed[n] = file.rows[n] \/ "firstName" \notin DOMAIN parsed[n][2])
  BY <1>4, ParsedAreRows DEF IsFile
<1> HIDE DEF parsed
<1>6. \A n \in DOMAIN parsed :
        /\ cleaned[n] = ProcessContactCleanup(parsed[n])
        /\ IsRow(cleaned[n])
        /\ "firstName" \in DOMAIN cleaned[n][2] => "firstName" \in DOMAIN parsed[n][2]
        /\ "id" \in DOMAIN parsed[n][2] =>
              "id" \in DOMAIN cleaned[n][2] /\ cleaned[n][2].id = parsed[n][2].id
  BY <1>5, CleanedRow
<1>7. DOMAIN cleaned = 1 .. Len(file.rows) /\ Len(cleaned) = Len(file.rows)
  <2> DEFINE S == {cleaned[n] : n \in DOMAIN parsed}
  <2>1. /\ DOMAIN cleaned = 1 .. Len(file.rows)
        /\ \A n \in 1 .. Len(file.rows) : cleaned[n] \in S
        /\ cleaned = [n \in 1 .. Len(file.rows) |-> cleaned[n]]
    BY <1>5
  <2> HIDE DEF cleaned, S, file
  <2> QED
    BY <1>5, <2>1, SequenceOf
<1> HIDE DEF cleaned
<1>8. ASSUME job[p].isExport
      PROVE  IdsTaken(cleaned, contact)
  <2>1. IdsTaken(file.rows, contact)
    BY <1>3, <1>8 DEF RequestOK
  <2> SUFFICES ASSUME NEW n \in DOMAIN cleaned, "firstName" \in DOMAIN cleaned[n][2]
               PROVE  /\ "id" \in DOMAIN cleaned[n][2]
                      /\ contact[cleaned[n][2].id[2]].state # "absent"
    BY DEF IdsTaken
  <2>2. n \in DOMAIN parsed
    BY <1>5, <1>7
  <2>3. parsed[n] = file.rows[n] /\ "firstName" \in DOMAIN parsed[n][2]
    BY <1>5, <1>6, <2>2
  <2>4. /\ "id" \in DOMAIN parsed[n][2]
        /\ contact[parsed[n][2].id[2]].state # "absent"
    BY <1>4, <1>5, <2>1, <2>2, <2>3 DEF IdsTaken, IsFile
  <2> QED
    BY <1>6, <2>2, <2>4
<1>9. cleaned = [n \in DOMAIN cleaned |-> cleaned[n]]
  BY DEF cleaned
<1>10. RequestOK("insert", job[p], cleaned, contact)
  BY <1>3, <1>5, <1>6, <1>7, <1>8, <1>9 DEF RequestOK
<1>11. job' = [job EXCEPT ![p] = job[p]]
  BY <1>1 DEF TransferInv
<1> QED
  BY <1>1, <1>2, <1>10, <1>11, ImportMoves

\* What an import does to the table: at most it adds the last row, and no row of an
\* export, whose ids are taken.
LEMMA InsertEffect ==
    ASSUME TransferInv, NEW p \in Requests, Insert(p)
    PROVE  /\ TableOK' /\ TakenBySequence' /\ RowsGrow
           /\ \/ UNCHANGED contact /\ (sequence' # sequence => contact[sequence'].named)
              \/ UNCHANGED contact /\ rows[p] # <<>> /\ ~HasName(p)
              \/ \E c \in Ids :
                    /\ ~job[p].isExport
                    /\ contact[c].state = "absent" /\ contact'[c].state # "absent"
                    /\ contact' = [contact EXCEPT ![c] = contact'[c]]
                    /\ contact'[c].owner = job[p].user
                    /\ contact'[c].firstName = rows[p][Len(rows[p])][2].firstName[2]
<1> DEFINE last == rows[p][Len(rows[p])][2]
<1>1. RequestOK("insert", job[p], rows[p], contact) /\ TableOK /\ TakenBySequence
  BY DEF TransferInv, Insert
<1>2. CASE UNCHANGED <<contact, sequence>>
  BY <1>1, <1>2, TableRests
<1>3. CASE rows[p] # <<>> /\ ~HasName(p) /\ RefuseRow(last)
  <2>1. sequence' \in sequence .. MaxId /\ UNCHANGED contact
    BY <1>1, <1>3, MaxIdAssumption DEF RefuseRow, TableOK
  <2>2. TableOK' /\ TakenBySequence' /\ RowsGrow
    BY <1>1, <2>1, MaxIdAssumption DEF TableOK, TakenBySequence, RowsGrow, Ids
  <2> QED
    BY <1>3, <2>1, <2>2
<1>4. CASE rows[p] # <<>> /\ HasName(p) /\ InsertRow(job[p].user, last)
  <2>1. rows[p] # <<>> /\ "firstName" \in DOMAIN last /\ InsertRow(job[p].user, last)
    BY <1>4 DEF HasName
  <2>2. Len(rows[p]) \in DOMAIN rows[p]
    <3>1. Len(rows[p]) # 0
      <4>1. ASSUME Len(rows[p]) = 0
            PROVE  rows[p] = <<>>
        BY <1>1, <4>1 DEF RequestOK
      <4> QED
        BY <2>1, <4>1
    <3> QED
      BY <1>1, <3>1 DEF RequestOK
  <2>3. IsRow(rows[p][Len(rows[p])]) /\ job[p].user \in Users
    BY <1>1, <2>2 DEF RequestOK
  <2>4. IsRow(<<"object", last>>)
    <3>1. rows[p][Len(rows[p])] = <<"object", last>>
      BY <2>3, Forms DEF IsRow
    <3> QED
      BY <2>3, <3>1
  <2>5. last.firstName[2] \in Names
    BY <2>1, <2>3 DEF IsRow
  <2>6. job[p].isExport => "id" \in DOMAIN last /\ contact[last.id[2]].state # "absent"
    BY <1>1, <2>1, <2>2 DEF RequestOK, IdsTaken
  <2>7. "id" \in DOMAIN last => IdOf(last) = last.id[2] /\ IdOf(last) # None
    BY <2>3, NoneAssumption DEF IsRow, IdOf
  <2> HIDE DEF last
  <2>8. CASE IdOf(last) = None
    <3>1. InsertNext(job[p].user, last.firstName[2])
      BY <2>1, <2>8 DEF InsertRow
    <3>2. ~job[p].isExport
      BY <2>6, <2>7, <2>8
    <3> QED
      BY <1>1, <2>3, <2>5, <3>1, <3>2, NextIsInserted DEF last
  <2>9. CASE IdOf(last) # None
    <3>1. /\ TableOK' /\ TakenBySequence' /\ RowsGrow /\ sequence' = sequence
          /\ \/ UNCHANGED contact
             \/ /\ contact[IdOf(last)].state = "absent" /\ IdOf(last) \in Ids
                /\ contact' = [contact EXCEPT ![IdOf(last)] = contact'[IdOf(last)]]
                /\ contact'[IdOf(last)].owner = job[p].user
                /\ contact'[IdOf(last)].firstName = last.firstName[2]
                /\ contact'[IdOf(last)].state # "absent"
      BY <1>1, <2>1, <2>3, <2>4, <2>9, NamedIsInserted
    <3>2. CASE UNCHANGED contact
      BY <3>1, <3>2
    <3>3. CASE ~UNCHANGED contact
      <4>1. ~job[p].isExport
        BY <2>6, <2>7, <3>1, <3>3
      <4> QED
        BY <3>1, <3>3, <4>1 DEF last
    <3> QED
      BY <3>2, <3>3
  <2> QED
    BY <2>8, <2>9
<1> QED
  BY <1>2, <1>3, <1>4 DEF Insert

LEMMA InsertInv ==
    ASSUME TransferInv, NEW p \in Requests, Insert(p)
    PROVE  TransferInv'
<1>1. TableOK' /\ TakenBySequence' /\ RowsGrow
  BY InsertEffect
<1> QED
  BY <1>1, EndInv DEF Insert

LEMMA NextInv == TransferInv /\ [Next]_vars => TransferInv'
<1> SUFFICES ASSUME TransferInv, [Next]_vars
             PROVE  TransferInv'
  OBVIOUS
<1>1. ASSUME NEW u \in Users, NEW name \in Names, Create(u, name)
      PROVE  TransferInv'
  BY <1>1, CreateInv
<1>2. ASSUME NEW u \in Users, NEW c \in Ids, Remove(u, c)
      PROVE  TransferInv'
  BY <1>2, RemoveInv
<1>3. ASSUME NEW u \in Users, NEW c \in Ids, ExportContacts(u, {c})
      PROVE  TransferInv'
  BY <1>3, ExportInv
<1>4. ASSUME NEW u \in Users, ExportContacts(u, Ids)
      PROVE  TransferInv'
  BY <1>4, ExportInv
<1>5. ASSUME NEW p \in Requests, NEW u \in Users, NEW file \in Uploads,
             ImportContacts(p, u, file, FALSE)
      PROVE  TransferInv'
  BY <1>5, ArrivalInv, UploadsAssumption
<1>6. ASSUME NEW p \in Requests, NEW u \in Users, exported # None,
             ImportContacts(p, u, exported, TRUE)
      PROVE  TransferInv'
  <2>1. IsFile(exported) /\ IdsTaken(exported.rows, contact)
    BY <1>6 DEF TransferInv, ExportOK
  <2> QED
    BY <1>6, <2>1, ArrivalInv
<1>7. ASSUME NEW p \in Requests, Detect(p)
      PROVE  TransferInv'
  BY <1>7, DetectInv
<1>8. ASSUME NEW p \in Requests, Parse(p)
      PROVE  TransferInv'
  BY <1>8, ParseInv
<1>9. ASSUME NEW p \in Requests, Insert(p)
      PROVE  TransferInv'
  BY <1>9, InsertInv
<1>10. CASE UNCHANGED vars
  <2>1. TableOK' /\ TakenBySequence' /\ RowsGrow
    BY <1>10, TableRests DEF vars, TransferInv
  <2> QED
    BY <1>10, <2>1, TableMoves DEF vars
<1> QED
  BY <1>1, <1>2, <1>3, <1>4, <1>5, <1>6, <1>7, <1>8, <1>9, <1>10 DEF Next

LEMMA TransferInvariant == Spec => []TransferInv
BY InitInv, NextInv, PTL DEF Spec

-----------------------------------------------------------------------------
(* The theorems *)

\* Rows, files and imports keep their shapes.
THEOREM TransferTypeCorrect == Spec => []TransferTypeOK
BY InvIsTyped, TransferInvariant, PTL

\* Rows about to be inserted have no timestamp at any depth, and have been cleaned for
\* good: they are what the cleaning makes of the rows of a file.
THEOREM RowsAreCleaned == Spec => []RowsCleaned
<1> DEFINE Final(v) == /\ KeysWithin[v] \cap Timestamps = {}
                       /\ ProcessContactCleanup(v) = v
<1>1. Init => RowsCleaned
  BY DEF Init, RowsCleaned
<1>2. ASSUME TransferInv, RowsCleaned, [Next]_vars
      PROVE  RowsCleaned'
  <2> SUFFICES ASSUME NEW p \in Requests, NEW i \in DOMAIN rows'[p]
               PROVE  Final(rows'[p][i])
    BY DEF RowsCleaned
  <2>1. CASE rows'[p] = rows[p]
    BY <1>2, <2>1 DEF RowsCleaned
  <2>2. ASSUME NEW q \in Requests, Parse(q), rows'[p] # rows[p]
        PROVE  Final(rows'[p][i])
    <3> DEFINE parsed == ParsedRows(job[q].file, job[q].separator)
               cleaned == [n \in DOMAIN parsed |-> ProcessContactCleanup(parsed[n])]
    <3>1. rows' = [rows EXCEPT ![q] = cleaned]
      BY <2>2 DEF Parse
    <3>2. \A n \in DOMAIN parsed : parsed[n] \in Values
      <4>1. IsFile(job[q].file)
        BY <1>2, <2>2 DEF TransferInv, RequestOK, Parse
      <4> QED
        BY <4>1, ParsedAreRows DEF IsRow
    <3> HIDE DEF parsed
    <3>3. \A n \in DOMAIN cleaned : Final(cleaned[n])
      BY <3>2, CleanupIsFinal
    <3> HIDE DEF cleaned, Final
    <3>4. rows'[p] = cleaned
      BY <1>2, <2>2, <3>1 DEF TransferInv
    <3> QED
      BY <3>3, <3>4
  <2>3. ASSUME NEW q \in Requests, End(q), rows'[p] # rows[p]
        PROVE  FALSE
    <3>1. rows'[p] = <<>>
      BY <1>2, <2>3 DEF TransferInv, End
    <3> QED
      BY <3>1
  <2>4. \/ rows' = rows
        \/ \E q \in Requests : Parse(q) \/ End(q)
    BY <1>2 DEF Next, vars, Create, Remove, ExportContacts, ImportContacts, Detect, Insert
  <2> QED
    BY <2>1, <2>2, <2>3, <2>4
<1> QED
  BY <1>1, <1>2, TransferInvariant, PTL DEF Spec

\* Only p's own step takes it from one await to another.
LEMMA OnlyOwnSteps ==
    ASSUME TransferInv, [Next]_vars, NEW p \in Requests, pc'[p] # pc[p], pc[p] # "idle"
    PROVE  \/ pc[p] = "detect" /\ Detect(p)
           \/ pc[p] = "parse" /\ pc'[p] = "insert" /\ Parse(p)
           \/ pc[p] = "insert" /\ Insert(p)
<1>1. PICK q \in Requests : \/ Detect(q) \/ Parse(q) \/ Insert(q)
                            \/ pc[q] = "idle" /\ pc' = [pc EXCEPT ![q] = "detect"]
  BY DEF Next, vars, Create, Remove, ExportContacts, ImportContacts
<1>2. \E place : pc' = [pc EXCEPT ![q] = place]
  BY <1>1 DEF Detect, Parse, Insert, End
<1>3. q = p
  BY <1>2 DEF TransferInv
<1>4. Parse(p) => pc'[p] = "insert"
  BY DEF Parse, TransferInv
<1> QED
  BY <1>1, <1>3, <1>4 DEF Detect, Parse, Insert

\* An import adds at most one contact, the last of its file, for its user, and writes
\* no row that is there.
THEOREM ImportsOnlyAdd == Spec => ImportOnlyAdds
<1>1. ASSUME TransferInv, [Next]_vars, NEW p \in Requests, pc[p] = "insert", pc'[p] = "idle"
      PROVE  \/ UNCHANGED contact
             \/ \E c \in Ids, i \in {Len(rows[p])} :
                   /\ contact[c].state = "absent"
                   /\ contact' = [contact EXCEPT ![c] = contact'[c]]
                   /\ contact'[c].owner = job[p].user
                   /\ contact'[c].firstName = rows[p][i][2].firstName[2]
  <2>1. Insert(p)
    BY <1>1, OnlyOwnSteps
  <2> QED
    BY <1>1, <2>1, InsertEffect
<1>2. TransferInv /\ [Next]_vars =>
        \A p \in Requests : pc[p] = "insert" /\ pc'[p] = "idle" =>
          \/ UNCHANGED contact
          \/ \E c \in Ids, i \in {Len(rows[p])} :
                /\ contact[c].state = "absent"
                /\ contact' = [contact EXCEPT ![c] = contact'[c]]
                /\ contact'[c].owner = job[p].user
                /\ contact'[c].firstName = rows[p][i][2].firstName[2]
  BY <1>1
<1> QED
  BY <1>2, TransferInvariant, PTL DEF Spec, ImportOnlyAdds

\* The import of an export adds nothing, whoever imports it and whenever.
THEOREM ReimportsAddNothing == Spec => ReimportAddsNothing
<1>1. ASSUME TransferInv, [Next]_vars, NEW p \in Requests,
             pc[p] = "insert", pc'[p] = "idle", job[p].isExport
      PROVE  UNCHANGED contact
  <2>1. Insert(p)
    BY <1>1, OnlyOwnSteps
  <2> QED
    BY <1>1, <2>1, InsertEffect
<1>2. TransferInv /\ [Next]_vars =>
        \A p \in Requests :
          pc[p] = "insert" /\ pc'[p] = "idle" /\ job[p].isExport => UNCHANGED contact
  BY <1>1
<1> QED
  BY <1>2, TransferInvariant, PTL DEF Spec, ReimportAddsNothing

\* An id of the sequence is lost only where a file has named it before, or to an
\* import whose last row has no first name.
THEOREM LossesAreNamed == Spec => LostOnlyIfNamed
<1>1. ASSUME TransferInv, [Next]_vars, sequence' # sequence, UNCHANGED contact
      PROVE  \/ contact[sequence'].named
             \/ \E p \in Requests :
                   pc[p] = "insert" /\ pc'[p] = "idle" /\ rows[p] # <<>> /\ ~HasName(p)
  <2>1. CASE \E u \in Users, name \in Names : Create(u, name)
    <3>1. PICK u \in Users, name \in Names : InsertNext(u, name)
      BY <2>1 DEF Create
    <3>2. TableOK /\ TakenBySequence
      BY <1>1 DEF TransferInv
    <3> QED
      BY <1>1, <3>1, <3>2, NextIsInserted
  <2>2. CASE \E p \in Requests : Insert(p)
    <3>1. PICK p \in Requests : Insert(p)
      BY <2>2
    <3>2. pc[p] = "insert" /\ pc'[p] = "idle"
      BY <1>1, <3>1 DEF Insert, End, TransferInv
    <3> QED
      BY <1>1, <3>1, <3>2, InsertEffect
  <2> QED
    BY <1>1, <2>1, <2>2
    DEF Next, vars, Remove, ExportContacts, ImportContacts, Detect, Parse
<1> QED
  BY <1>1, TransferInvariant, PTL DEF Spec, LostOnlyIfNamed

-----------------------------------------------------------------------------
(* The separator *)

LEMMA LeastNumber ==
    ASSUME NEW T \in SUBSET Nat, T # {}
    PROVE  \E x \in T : \A y \in T : x <= y
<1>1. PICK x \in T : \A y \in T : <<y, x>> \notin OpToRel(<, Nat)
  BY NatLessThanWellFounded, WFMin
<1>2. \A y \in T : ~(y < x)
  BY <1>1 DEF OpToRel
<1> QED
  BY <1>2

LEMMA GreatestNumber ==
    ASSUME NEW n \in Nat, NEW T \in SUBSET (1 .. n), T # {}
    PROVE  \E x \in T : \A y \in T : x >= y
<1> DEFINE below == {n - t : t \in T}
<1>1. below \in SUBSET Nat /\ below # {}
  <2>1. \A t \in T : n - t \in Nat
    OBVIOUS
  <2> QED
    BY <2>1
<1>2. PICK b \in below : \A c \in below : b <= c
  BY <1>1, LeastNumber
<1>3. PICK x \in T : b = n - x
  BY <1>2
<1>4. ASSUME NEW y \in T
      PROVE  x >= y
  <2>1. n - y \in below
    OBVIOUS
  <2>2. n - x <= n - y /\ x \in Nat /\ y \in Nat
    BY <1>2, <1>3, <2>1
  <2> QED
    BY <2>2
<1> QED
  BY <1>4

\* What trim leaves of a line is a line.
LEMMA TrimmedLine ==
    ASSUME NEW line \in Seq(Symbols)
    PROVE  Trim(line) \in Seq(Symbols)
<1> DEFINE inner == {i \in DOMAIN line : line[i] # "tab"}
<1>0. /\ DOMAIN line = 1 .. Len(line) /\ Len(line) \in Nat
      /\ \A i \in DOMAIN line : line[i] \in Symbols
  OBVIOUS
<1>1. CASE inner = {}
  BY <1>1 DEF Trim
<1>2. CASE inner # {}
  <2> DEFINE first == CHOOSE i \in inner : \A j \in inner : i <= j
             last == CHOOSE i \in inner : \A j \in inner : i >= j
  <2>1. inner \in SUBSET Nat /\ inner \in SUBSET (1 .. Len(line))
    BY <1>0
  <2>2. first \in inner
    BY <1>2, <2>1, LeastNumber
  <2>3. last \in inner
    BY <1>0, <1>2, <2>1, GreatestNumber
  <2>4. Trim(line) = SubSeq(line, first, last)
    BY <1>2 DEF Trim
  <2> HIDE DEF first, last, inner
  <2>5. first \in Int /\ last \in Int /\ \A i \in first .. last : line[i] \in Symbols
    BY <1>0, <2>1, <2>2, <2>3
  <2> QED
    BY <2>4, <2>5, SubSeqProperties
<1> QED
  BY <1>1, <1>2

\* In each line a separator has finitely many places, and there are five lines at most
\* that are not blank.
LEMMA FinitelyMany ==
    ASSUME NEW lines \in Seq(Seq(Symbols))
    PROVE  /\ IsFiniteSet(Considered(lines))
           /\ \A n \in Considered(lines) : \A separator :
                 /\ IsFiniteSet(Occurrences(lines, n, separator))
                 /\ \A x \in Occurrences(lines, n, separator) : x[1] = n
<1>1. DOMAIN lines = 1 .. Len(lines) /\ Len(lines) \in Nat
  OBVIOUS
<1>2. IsFiniteSet(Considered(lines))
  <2>1. IsFiniteSet(1 .. Len(lines))
    BY <1>1, FS_Interval
  <2>2. Considered(lines) \subseteq 1 .. Len(lines)
    BY <1>1 DEF Considered
  <2> QED
    BY <2>1, <2>2, FS_Subset
<1>3. ASSUME NEW n \in Considered(lines), NEW separator
      PROVE  /\ IsFiniteSet(Occurrences(lines, n, separator))
             /\ \A x \in Occurrences(lines, n, separator) : x[1] = n
  <2> DEFINE trimmed == Trim(lines[n])
  <2>1. lines[n] \in Seq(Symbols)
    BY DEF Considered
  <2>2. trimmed \in Seq(Symbols)
    BY <2>1, TrimmedLine
  <2> HIDE DEF trimmed
  <2>3. DOMAIN trimmed = 1 .. Len(trimmed) /\ Len(trimmed) \in Nat
    BY <2>2
  <2>4. IsFiniteSet(1 .. Len(trimmed)) /\ IsFiniteSet({n})
    <3>1. IsFiniteSet(1 .. Len(trimmed))
      BY <2>3, FS_Interval
    <3> QED
      BY <3>1, FS_Singleton
  <2>5. IsFiniteSet({n} \X (1 .. Len(trimmed)))
    BY <2>4, FS_Product
  <2>6. Occurrences(lines, n, separator) \subseteq {n} \X (1 .. Len(trimmed))
    BY <2>3 DEF Occurrences, trimmed
  <2>7. \A x \in Occurrences(lines, n, separator) : x[1] = n
    BY DEF Occurrences
  <2> QED
    BY <2>5, <2>6, <2>7, FS_Subset
<1> QED
  BY <1>2, <1>3

\* Two families of finite sets, those of a family disjoint, each set of the one smaller
\* than its counterpart in the other.
SmallerEach(N, A, B) ==
    \A n \in N : /\ IsFiniteSet(A[n]) /\ \A x \in A[n] : x[1] = n
                 /\ IsFiniteSet(B[n]) /\ \A x \in B[n] : x[1] = n
                 /\ Cardinality(A[n]) < Cardinality(B[n])

UnionOf(N, A) == UNION {A[n] : n \in N}

\* So are the unions: what maps the one into the other, set by set, leaves something out.
LEMMA SmallerUnion ==
    ASSUME NEW N, IsFiniteSet(N), N # {}, NEW A, NEW B, SmallerEach(N, A, B)
    PROVE  /\ Cardinality(UnionOf(N, A)) < Cardinality(UnionOf(N, B))
           /\ Cardinality(UnionOf(N, A)) \in Nat
           /\ Cardinality(UnionOf(N, B)) \in Nat
<1> USE DEF SmallerEach
<1> DEFINE allA == UNION {A[n] : n \in N}
           allB == UNION {B[n] : n \in N}
           a == [n \in N |-> CHOOSE f : f \in Bijection(1 .. Cardinality(A[n]), A[n])]
           b == [n \in N |-> CHOOSE f : f \in Bijection(1 .. Cardinality(B[n]), B[n])]
<1>1. \A n \in N : Cardinality(A[n]) \in Nat /\ Cardinality(B[n]) \in Nat
  BY FS_CardinalityType
<1>2. \A n \in N : a[n] \in Bijection(1 .. Cardinality(A[n]), A[n])
  BY FS_CardinalityType DEF ExistsBijection
<1>3. \A n \in N : b[n] \in Bijection(1 .. Cardinality(B[n]), B[n])
  BY FS_CardinalityType DEF ExistsBijection
<1> HIDE DEF a, b
<1>4. IsFiniteSet(allB)
  <2> DEFINE family == [n \in N |-> B[n]]
             range == {B[n] : n \in N}
  <2>1. family \in Surjection(N, range)
    BY DEF Surjection
  <2>2. IsFiniteSet(range)
    BY <2>1, FS_Surjection
  <2>3. \A T \in range : IsFiniteSet(T)
    OBVIOUS
  <2> QED
    BY <2>2, <2>3, FS_UNION
<1> DEFINE place(x) == CHOOSE i \in 1 .. Cardinality(A[x[1]]) : a[x[1]][i] = x
           g == [x \in allA |-> b[x[1]][place(x)]]
<1>5. ASSUME NEW x \in allA
      PROVE  /\ x[1] \in N
             /\ place(x) \in 1 .. Cardinality(A[x[1]])
             /\ a[x[1]][place(x)] = x
  <2>1. PICK n \in N : x \in A[n]
    OBVIOUS
  <2>2. x[1] = n
    BY <2>1
  <2>3. \E i \in 1 .. Cardinality(A[n]) : a[n][i] = x
    BY <1>2, <2>1 DEF Bijection, Surjection
  <2> QED
    BY <2>2, <2>3
<1> HIDE DEF place
<1>6. ASSUME NEW n \in N, NEW i \in 1 .. Cardinality(B[n])
      PROVE  b[n][i] \in B[n] /\ b[n][i] \in allB /\ b[n][i][1] = n
  <2>1. b[n][i] \in B[n]
    BY <1>3 DEF Bijection, Injection
  <2> QED
    BY <2>1
<1>7. \A n \in N : \A i, j \in 1 .. Cardinality(B[n]) : b[n][i] = b[n][j] => i = j
  BY <1>3 DEF Bijection, Injection, IsInjective
<1>8. \A x \in allA : x[1] \in N /\ place(x) \in 1 .. Cardinality(B[x[1]])
                      /\ place(x) < Cardinality(B[x[1]])
  BY <1>1, <1>5
<1> HIDE DEF allA, allB
<1>9. g \in Injection(allA, allB)
  <2>1. g \in [allA -> allB]
    BY <1>6, <1>8
  <2>2. ASSUME NEW x \in allA, NEW y \in allA, g[x] = g[y]
        PROVE  x = y
    <3>1. b[x[1]][place(x)] = b[y[1]][place(y)]
      BY <2>2
    <3>2. x[1] = y[1]
      BY <1>6, <1>8, <3>1
    <3>3. place(x) = place(y)
      BY <1>7, <1>8, <3>1, <3>2
    <3> QED
      BY <1>5, <3>2, <3>3
  <2> QED
    BY <2>1, <2>2 DEF Injection, IsInjective
<1>10. g \notin Surjection(allA, allB)
  <2>1. PICK n \in N : TRUE
    OBVIOUS
  <2> DEFINE k == Cardinality(B[n])
  <2>2. k \in 1 .. k
    BY <1>1, <2>1
  <2>3. ASSUME NEW x \in allA, g[x] = b[n][k]
        PROVE  FALSE
    <3>1. b[x[1]][place(x)] = b[n][k]
      BY <2>3
    <3>2. x[1] = n
      BY <1>6, <1>8, <2>2, <3>1
    <3>3. place(x) = k
      BY <1>7, <1>8, <2>2, <3>1, <3>2
    <3> QED
      BY <1>1, <1>8, <3>2, <3>3
  <2>4. b[n][k] \in allB
    BY <1>6, <2>2
  <2> QED
    BY <2>3, <2>4 DEF Surjection
<1>11. Cardinality(allA) <= Cardinality(allB) /\ Cardinality(allA) # Cardinality(allB)
       /\ IsFiniteSet(allA)
  BY <1>4, <1>9, <1>10, FS_Injection
<1>12. Cardinality(allA) \in Nat /\ Cardinality(allB) \in Nat
  BY <1>4, <1>11, FS_CardinalityType
<1> QED
  BY <1>11, <1>12 DEF allA, allB, UnionOf

\* The best score of a regular file is its separator's, and no other's.
LEMMA BestScore ==
    ASSUME NEW file, IsFile(file), Regular(file), NEW s \in DOMAIN Separators,
           Separators[s] # file.separator
    PROVE  /\ Score(file.lines, Separators[s]) \in Nat
           /\ Score(file.lines, file.separator) \in Nat
           /\ Score(file.lines, Separators[s]) < Score(file.lines, file.separator)
<1> DEFINE N == Considered(file.lines)
           A == [n \in N |-> Occurrences(file.lines, n, Separators[s])]
           B == [n \in N |-> Occurrences(file.lines, n, file.separator)]
<1>1. IsFiniteSet(N) /\ N # {}
  BY FinitelyMany DEF IsFile, Regular
<1>2. SmallerEach(N, A, B)
  <2>1. \A n \in N : /\ IsFiniteSet(A[n]) /\ \A x \in A[n] : x[1] = n
                     /\ IsFiniteSet(B[n]) /\ \A x \in B[n] : x[1] = n
    BY FinitelyMany DEF IsFile
  <2>2. \A n \in N : Cardinality(A[n]) < Cardinality(B[n])
    BY DEF Regular
  <2> QED
    BY <2>1, <2>2 DEF SmallerEach
<1>3. /\ UnionOf(N, A) = UNION {Occurrences(file.lines, n, Separators[s]) : n \in N}
      /\ UnionOf(N, B) = UNION {Occurrences(file.lines, n, file.separator) : n \in N}
  BY DEF UnionOf
<1>4. /\ Score(file.lines, Separators[s]) = Cardinality(UnionOf(N, A))
      /\ Score(file.lines, file.separator) = Cardinality(UnionOf(N, B))
  BY <1>3 DEF Score
<1> HIDE DEF N, A, B
<1> QED
  BY <1>1, <1>2, <1>4, SmallerUnion

\* detectSeparator finds the separator of a regular file.
LEMMA Detected ==
    ASSUME NEW file, IsFile(file), Regular(file)
    PROVE  DetectSeparator(file.lines) = file.separator
<1> DEFINE score == [s \in DOMAIN Separators |-> Score(file.lines, Separators[s])]
           IsBest(s) == /\ \A r \in DOMAIN score : score[r] <= score[s]
                        /\ \A r \in DOMAIN score : r < s => score[r] < score[s]
           best == CHOOSE s \in DOMAIN score : IsBest(s)
<1>1. PICK own \in DOMAIN Separators : file.separator = Separators[own]
  BY DEF IsFile
<1>2. /\ DOMAIN Separators = 1 .. 4
      /\ \A r, s \in 1 .. 4 : Separators[r] = Separators[s] => r = s
  <2>1. DOMAIN Separators = 1 .. 4
    BY DEF Separators
  <2>2. \A s \in 1 .. 4 : s = 1 \/ s = 2 \/ s = 3 \/ s = 4
    OBVIOUS
  <2>3. /\ Separators[1] = "," /\ Separators[2] = ";"
        /\ Separators[3] = "tab" /\ Separators[4] = "|"
    BY DEF Separators
  <2> QED
    BY <2>1, <2>2, <2>3
<1>3. \A s \in DOMAIN Separators \ {own} :
        score[s] \in Nat /\ score[own] \in Nat /\ score[s] < score[own]
  BY <1>1, <1>2, BestScore
<1>4. score[own] \in Nat /\ score[own] > 0
  <2>1. PICK s \in DOMAIN Separators \ {own} : TRUE
    BY <1>2
  <2> QED
    BY <1>3, <2>1
<1>5. DOMAIN score = 1 .. 4 /\ own \in DOMAIN score
  BY <1>1, <1>2
<1>6. DetectSeparator(file.lines) =
        IF Considered(file.lines) # {} /\ score[best] = 0 THEN None ELSE Separators[best]
  BY Zenon DEF DetectSeparator
<1> HIDE DEF score
<1>7. IsBest(own)
  BY <1>2, <1>3, <1>4, <1>5
<1>8. \A s \in DOMAIN score : IsBest(s) => s = own
  BY <1>2, <1>3, <1>4, <1>5
<1>9. best = own
  BY <1>5, <1>7, <1>8
<1> HIDE DEF best
<1> QED
  BY <1>1, <1>4, <1>6, <1>9

\* The separator of every regular file is found, whatever else is in it.
THEOREM SeparatorsAreFound == Spec => SeparatorFound
<1>1. ASSUME TransferInv, [Next]_vars, NEW p \in Requests,
             pc[p] = "detect", pc'[p] # "detect", Regular(job[p].file)
      PROVE  pc'[p] = "parse" /\ job'[p].separator = job[p].file.separator
  <2>1. Detect(p)
    BY <1>1, OnlyOwnSteps
  <2>2. RequestOK("detect", job[p], rows[p], contact) /\ IsFile(job[p].file)
    BY <1>1 DEF TransferInv, RequestOK
  <2>3. DetectSeparator(job[p].file.lines) = job[p].file.separator
    BY <1>1, <2>2, Detected
  <2>4. job[p].file.separator # None
    BY <2>2, NoneAssumption DEF IsFile
  <2>5. /\ pc' = [pc EXCEPT ![p] = "parse"]
        /\ job' = [job EXCEPT ![p].separator = job[p].file.separator]
    BY <2>1, <2>3, <2>4 DEF Detect
  <2>6. job[p] = [Job(job[p].user, job[p].file, job[p].isExport)
                     EXCEPT !.separator = job[p].separator]
    BY <2>2 DEF RequestOK
  <2>7. "separator" \in DOMAIN job[p]
    BY <2>6 DEF Job
  <2> QED
    BY <1>1, <2>5, <2>7 DEF TransferInv
<1>2. TransferInv /\ [Next]_vars =>
        \A p \in Requests : pc[p] = "detect" /\ pc'[p] # "detect" /\ Regular(job[p].file) =>
          pc'[p] = "parse" /\ job'[p].separator = job[p].file.separator
  BY <1>1
<1> QED
  BY <1>2, TransferInvariant, PTL DEF Spec, SeparatorFound

==============================================================================
