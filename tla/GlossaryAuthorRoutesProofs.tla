---------------------- MODULE GlossaryAuthorRoutesProofs ----------------------
(***************************************************************************)
(* A proof, for every author URL and every set of GUIDs, that every Route *)
(* of the Glossary Author's Switch is reachable: the location a Route's    *)
(* pattern describes renders that Route's view.                            *)
(*                                                                         *)
(* Every pattern but the last is AuthorURL followed by a short tail of     *)
(* keywords and parameters.  Since the segments of AuthorURL are neither   *)
(* keywords, parameters nor GUIDs, matching such a pattern against such a  *)
(* location is matching the tails, which is a fact about ten small tuples. *)
(***************************************************************************)
EXTENDS GlossaryAuthorRoutes, SequenceTheorems, TLAPS

(* The tails of the first nine Routes after AuthorURL, in Switch order. *)
TailRoutes ==
    << Route(<<"glossaries", "add-node">>, FALSE, "CreateGlossary"),
       Route(<<"glossaries", "edit-node", Param>>, FALSE, "UpdateGlossary"),
       Route(<<"glossaries">>, TRUE, "GlossaryAuthorNavigation"),
       Route(<<"search">>, FALSE, "GlossaryAuthorSearch"),
       Route(<<"glossaries", Param, "quick-terms">>, FALSE, "QuickTerms"),
       Route(<<"glossaries", Param, "children">>, FALSE, "GlossaryChildren"),
       Route(<<"glossaries">>, FALSE, "GlossaryAuthorNavigation"),
       Route(<<"crud">>, FALSE, "GlossaryAuthorCRUD"),
       Route(<< >>, TRUE, "GlossaryAuthorNavigation") >>

PatternSegs == Keywords \cup {Param}

AllSegs == Keywords \cup Others \cup Guids \cup {Param}

-----------------------------------------------------------------------------
(* Concatenating one- and two-element tuples. *)
LEMMA TupleConcat ==
    ASSUME NEW S, NEW x \in S, NEW y \in S, NEW z \in S
    PROVE  /\ <<x>> \o <<y>> = <<x, y>>
           /\ <<x>> \o <<y, z>> = <<x, y, z>>
<1>1. <<x>> \o <<y>> = <<x, y>>
  <2>1. <<x>> \in Seq(S) /\ <<y>> \in Seq(S) /\ <<x, y>> \in Seq(S)
    OBVIOUS
  <2>2. /\ <<x>> \o <<y>> \in Seq(S) /\ Len(<<x>> \o <<y>>) = 2
        /\ (<<x>> \o <<y>>)[1] = x /\ (<<x>> \o <<y>>)[2] = y
    BY <2>1, ConcatProperties
  <2>3. \A i \in 1..Len(<<x>> \o <<y>>) : (<<x>> \o <<y>>)[i] = <<x, y>>[i]
    BY <2>2
  <2>4. Len(<<x>> \o <<y>>) = Len(<<x, y>>)
    BY <2>2
  <2>5. QED
    BY <2>1, <2>2, <2>3, <2>4, SeqEqual
<1>2. <<x>> \o <<y, z>> = <<x, y, z>>
  <2>1. <<x>> \in Seq(S) /\ <<y, z>> \in Seq(S) /\ <<x, y, z>> \in Seq(S)
    OBVIOUS
  <2>2. /\ <<x>> \o <<y, z>> \in Seq(S) /\ Len(<<x>> \o <<y, z>>) = 3
        /\ (<<x>> \o <<y, z>>)[1] = x /\ (<<x>> \o <<y, z>>)[2] = y
        /\ (<<x>> \o <<y, z>>)[3] = z
    BY <2>1, ConcatProperties
  <2>3. \A i \in 1..Len(<<x>> \o <<y, z>>) : (<<x>> \o <<y, z>>)[i] = <<x, y, z>>[i]
    BY <2>2
  <2>4. Len(<<x>> \o <<y, z>>) = Len(<<x, y, z>>)
    BY <2>2
  <2>5. QED
    BY <2>1, <2>2, <2>3, <2>4, SeqEqual
<1>3. QED
  BY <1>1, <1>2

(* The path builders put AuthorURL in front of a tail. *)
LEMMA RoutesShape ==
    /\ DOMAIN Routes = 1..10
    /\ \A j \in 1..9 :
           /\ Routes[j].path = AuthorURL \o TailRoutes[j].path
           /\ Routes[j].exact = TailRoutes[j].exact
           /\ Routes[j].view = TailRoutes[j].view
    /\ Routes[10] = Route(<< >>, FALSE, "NotRecognised")
<1> DEFINE A == AuthorURL
<1>1. A \in Seq(Others \cup PatternSegs)
  BY RoutesAssumption
<1>2. \A t, u \in Seq(Others \cup PatternSegs) : (A \o t) \o u = A \o (t \o u)
  BY <1>1, ConcatAssociative
<1>3. A \o << >> = A
  BY <1>1, ConcatEmptySeq
<1>0. /\ "glossaries" \in Others \cup PatternSegs
      /\ "add-node" \in Others \cup PatternSegs
      /\ "edit-node" \in Others \cup PatternSegs
      /\ "quick-terms" \in Others \cup PatternSegs
      /\ "children" \in Others \cup PatternSegs
      /\ Param \in Others \cup PatternSegs
  BY DEF PatternSegs, Keywords
<1>12. \A x, y, z \in Others \cup PatternSegs : <<x>> \o <<y, z>> = <<x, y, z>>
  BY TupleConcat
<1>8. /\ <<"glossaries">> \in Seq(Others \cup PatternSegs)
      /\ <<"add-node">> \in Seq(Others \cup PatternSegs)
      /\ <<"edit-node", Param>> \in Seq(Others \cup PatternSegs)
      /\ <<Param, "quick-terms">> \in Seq(Others \cup PatternSegs)
      /\ <<Param, "children">> \in Seq(Others \cup PatternSegs)
  BY <1>0
<1>4. GetGlossariesAddPath = A \o <<"glossaries", "add-node">>
  <2>1. <<"glossaries">> \o <<"add-node">> = <<"glossaries", "add-node">>
    BY <1>0, TupleConcat
  <2>2. QED
    BY <1>0, <1>2, <2>1 DEF GetGlossariesAddPath, GetGlossariesPath
<1>5. GetGlossariesEditPath = A \o <<"glossaries", "edit-node", Param>>
  <2>1. <<"glossaries">> \o <<"edit-node", Param>> = <<"glossaries", "edit-node", Param>>
    BY <1>0, <1>12
  <2>2. QED
    BY <1>0, <1>2, <1>8, <2>1 DEF GetGlossariesEditPath, GetGlossariesPath
<1>6. GetQuickTermsPath = A \o <<"glossaries", Param, "quick-terms">>
  <2>1. <<"glossaries">> \o <<Param, "quick-terms">> = <<"glossaries", Param, "quick-terms">>
    BY <1>0, <1>12
  <2>2. QED
    BY <1>0, <1>2, <1>8, <2>1 DEF GetQuickTermsPath, GetGlossariesPath
<1>7. GetGlossaryChildrenPath = A \o <<"glossaries", Param, "children">>
  <2>1. <<"glossaries">> \o <<Param, "children">> = <<"glossaries", Param, "children">>
    BY <1>0, <1>12
  <2>2. QED
    BY <1>0, <1>2, <1>8, <2>1 DEF GetGlossaryChildrenPath, GetGlossariesPath
<1>9. DOMAIN Routes = 1..10 /\ Routes[10] = Route(<< >>, FALSE, "NotRecognised")
  BY DEF Routes
<1>10. \A j \in 1..9 :
           /\ Routes[j].path = AuthorURL \o TailRoutes[j].path
           /\ Routes[j].exact = TailRoutes[j].exact
           /\ Routes[j].view = TailRoutes[j].view
  <2> SUFFICES ASSUME NEW j \in 1..9
               PROVE  /\ Routes[j].path = AuthorURL \o TailRoutes[j].path
                      /\ Routes[j].exact = TailRoutes[j].exact
                      /\ Routes[j].view = TailRoutes[j].view
    OBVIOUS
  <2>1. j \in {1, 2, 3, 4, 5, 6, 7, 8, 9}
    OBVIOUS
  <2>2. CASE j = 1
    BY <2>2, <1>4 DEF Routes, TailRoutes, Route
  <2>3. CASE j = 2
    BY <2>3, <1>5 DEF Routes, TailRoutes, Route
  <2>4. CASE j = 3
    BY <2>4 DEF Routes, TailRoutes, Route, GetGlossariesPath
  <2>5. CASE j = 4
    BY <2>5 DEF Routes, TailRoutes, Route, GetSearchPath
  <2>6. CASE j = 5
    BY <2>6, <1>6 DEF Routes, TailRoutes, Route
  <2>7. CASE j = 6
    BY <2>7, <1>7 DEF Routes, TailRoutes, Route
  <2>8. CASE j = 7
    BY <2>8 DEF Routes, TailRoutes, Route, GetGlossariesPath
  <2>9. CASE j = 8
    BY <2>9 DEF Routes, TailRoutes, Route, GetCrudPath
  <2>10. CASE j = 9
    BY <2>10, <1>3 DEF Routes, TailRoutes, Route
  <2>11. QED
    BY <2>1, <2>2, <2>3, <2>4, <2>5, <2>6, <2>7, <2>8, <2>9, <2>10
<1>11. QED
  BY <1>9, <1>10

-----------------------------------------------------------------------------
(* Binding the parameter of a pattern keeps its length and replaces each   *)
(* ":guid" by g.                                                           *)
LEMMA InstanceProps ==
    ASSUME NEW P \in Seq(AllSegs), NEW g \in Guids
    PROVE  /\ Instance(P, g) \in Seq(AllSegs)
           /\ Len(Instance(P, g)) = Len(P)
           /\ \A i \in 1..Len(P) : Instance(P, g)[i] = IF P[i] = Param THEN g ELSE P[i]
<1>1. Instance(P, g) = [i \in 1..Len(P) |-> IF P[i] = Param THEN g ELSE P[i]]
  BY LenProperties DEF Instance
<1>2. \A i \in 1..Len(P) : (IF P[i] = Param THEN g ELSE P[i]) \in AllSegs
  BY ElementOfSeq DEF AllSegs
<1>3. Instance(P, g) \in Seq(AllSegs)
  BY <1>1, <1>2, IsASeq, LenProperties
<1>4. QED
  BY <1>1, <1>3, LenProperties

(* A pattern that starts with a path matches a location that starts with  *)
(* the same path exactly when the rest of the pattern matches the rest.    *)
LEMMA MatchConcat ==
    ASSUME NEW U \in Seq(AllSegs), NEW P \in Seq(AllSegs), NEW T \in Seq(AllSegs),
           NEW e, NEW v
    PROVE  Matches(Route(U \o P, e, v), U \o T) <=> Matches(Route(P, e, v), T)
<1> DEFINE n == Len(U)
<1>1. /\ Len(U \o P) = n + Len(P) /\ Len(U \o T) = n + Len(T)
      /\ \A i \in 1..(n + Len(P)) : (U \o P)[i] = IF i <= n THEN U[i] ELSE P[i - n]
      /\ \A i \in 1..(n + Len(T)) : (U \o T)[i] = IF i <= n THEN U[i] ELSE T[i - n]
      /\ n \in Nat /\ Len(P) \in Nat /\ Len(T) \in Nat
  BY ConcatProperties, LenProperties
<1>7. /\ Len(U \o P) = Len(U) + Len(P) /\ Len(U \o T) = Len(U) + Len(T)
      /\ Len(U) \in Nat /\ Len(P) \in Nat /\ Len(T) \in Nat
  BY ConcatProperties, LenProperties
<1>2. Len(P) <= Len(T) =>
        ((\A i \in 1..Len(U \o P) : (U \o P)[i] \in {Param, (U \o T)[i]})
         <=> (\A i \in 1..Len(P) : P[i] \in {Param, T[i]}))
  <2> SUFFICES ASSUME Len(P) <= Len(T)
               PROVE  (\A i \in 1..Len(U \o P) : (U \o P)[i] \in {Param, (U \o T)[i]})
                      <=> (\A i \in 1..Len(P) : P[i] \in {Param, T[i]})
    OBVIOUS
  <2>1. ASSUME \A i \in 1..Len(U \o P) : (U \o P)[i] \in {Param, (U \o T)[i]},
               NEW i \in 1..Len(P)
        PROVE  P[i] \in {Param, T[i]}
    <3>0. n + i \in 1..Len(U \o P) /\ n + i \in 1..Len(U \o T) /\ ~(n + i <= n)
      BY <1>7 DEF n
    <3>1. (U \o P)[n + i] \in {Param, (U \o T)[n + i]}
      BY <2>1, <3>0
    <3>2. (U \o P)[n + i] = P[i] /\ (U \o T)[n + i] = T[i]
      BY <1>1, <3>0
    <3>3. QED
      BY <3>1, <3>2
  <2>2. ASSUME \A i \in 1..Len(P) : P[i] \in {Param, T[i]},
               NEW i \in 1..Len(U \o P)
        PROVE  (U \o P)[i] \in {Param, (U \o T)[i]}
    <3>1. CASE i <= n
      BY <3>1, <1>1
    <3>2. CASE i > n
      <4>1. i - n \in 1..Len(P)
        BY <3>2, <1>1
      <4>2. QED
        BY <2>2, <3>2, <4>1, <1>1
    <3>3. QED
      BY <3>1, <3>2, <1>1
  <2>3. QED
    BY <2>1, <2>2
<1>3. Matches(Route(U \o P, e, v), U \o T) <=>
        /\ Len(U \o P) <= Len(U \o T)
        /\ \A i \in 1..Len(U \o P) : (U \o P)[i] \in {Param, (U \o T)[i]}
        /\ e => Len(U \o P) = Len(U \o T)
  BY Zenon DEF Matches, Route
<1>4. Matches(Route(P, e, v), T) <=>
        /\ Len(P) <= Len(T)
        /\ \A i \in 1..Len(P) : P[i] \in {Param, T[i]}
        /\ e => Len(P) = Len(T)
  BY Zenon DEF Matches, Route
<1>5. /\ Len(U \o P) <= Len(U \o T) <=> Len(P) <= Len(T)
      /\ Len(U \o P) = Len(U \o T) <=> Len(P) = Len(T)
  BY <1>7
<1>6. QED
  BY <1>2, <1>3, <1>4, <1>5

(* The Switch renders the view of a Route that matches when no earlier    *)
(* Route does.                                                             *)
LEMMA SelectFirst ==
    ASSUME NEW p, NEW k \in 1..10, Matches(Routes[k], p),
           \A j \in 1..(k - 1) : ~Matches(Routes[j], p)
    PROVE  Select(p) = Routes[k].view
<1> DEFINE First(x) == /\ Matches(Routes[x], p)
                       /\ \A j \in 1..(x - 1) : ~Matches(Routes[j], p)
<1>1. DOMAIN Routes = 1..10
  BY RoutesShape
<1>2. \A x \in DOMAIN Routes : First(x) => x = k
  BY <1>1
<1>3. (CHOOSE x \in DOMAIN Routes : First(x)) = k
  BY <1>1, <1>2
<1>4. QED
  BY <1>3 DEF Select

(* Binding the parameter leaves AuthorURL alone: none of its segments is  *)
(* the parameter.                                                          *)
LEMMA InstanceConcat ==
    ASSUME NEW P \in Seq(AllSegs), NEW g \in Guids
    PROVE  /\ Instance(AuthorURL \o P, g) = AuthorURL \o Instance(P, g)
           /\ AuthorURL \o Instance(P, g) \in Seq(AllSegs)
<1> DEFINE A == AuthorURL
           I == Instance(P, g)
<1>1. A \in Seq(AllSegs) /\ \A i \in 1..Len(A) : A[i] # Param
  <2>1. A \in Seq(Others)
    BY RoutesAssumption
  <2>2. \A i \in 1..Len(A) : A[i] \in Others
    BY <2>1, ElementOfSeq
  <2>3. QED
    BY <2>1, <2>2, RoutesAssumption, SeqMonotonic DEF AllSegs
<1>2. /\ I \in Seq(AllSegs) /\ Len(I) = Len(P)
      /\ \A i \in 1..Len(P) : I[i] = IF P[i] = Param THEN g ELSE P[i]
  BY InstanceProps
<1>3. /\ A \o P \in Seq(AllSegs) /\ Len(A \o P) = Len(A) + Len(P)
      /\ \A i \in 1..Len(A) + Len(P) : (A \o P)[i] = IF i <= Len(A) THEN A[i] ELSE P[i - Len(A)]
  BY <1>1, ConcatProperties
<1>0. \A s, t \in Seq(AllSegs) :
        /\ s \o t \in Seq(AllSegs) /\ Len(s \o t) = Len(s) + Len(t)
        /\ \A i \in 1..Len(s) + Len(t) : (s \o t)[i] = IF i <= Len(s) THEN s[i] ELSE t[i - Len(s)]
  BY ConcatProperties
<1>4. /\ A \o I \in Seq(AllSegs) /\ Len(A \o I) = Len(A) + Len(I)
      /\ \A i \in 1..Len(A) + Len(I) : (A \o I)[i] = IF i <= Len(A) THEN A[i] ELSE I[i - Len(A)]
  BY <1>0, <1>1, <1>2
<1>5. /\ Instance(A \o P, g) \in Seq(AllSegs) /\ Len(Instance(A \o P, g)) = Len(A \o P)
      /\ \A i \in 1..Len(A \o P) :
            Instance(A \o P, g)[i] = IF (A \o P)[i] = Param THEN g ELSE (A \o P)[i]
  BY <1>3, InstanceProps
<1>6. \A i \in 1..Len(A \o P) : Instance(A \o P, g)[i] = (A \o I)[i]
  <2> SUFFICES ASSUME NEW i \in 1..Len(A \o P)
               PROVE  Instance(A \o P, g)[i] = (A \o I)[i]
    OBVIOUS
  <2>1. Len(A) \in Nat /\ Len(P) \in Nat
    BY <1>1, LenProperties
  <2>2. CASE i <= Len(A)
    BY <1>1, <1>2, <1>3, <1>4, <1>5, <2>1, <2>2
  <2>3. CASE ~(i <= Len(A))
    <3>1. i - Len(A) \in 1..Len(P)
      BY <1>3, <2>1, <2>3
    <3>2. QED
      BY <1>2, <1>3, <1>4, <1>5, <2>1, <2>3, <3>1
  <2>4. QED
    BY <2>2, <2>3
<1>7. Len(Instance(A \o P, g)) = Len(A \o I)
  BY <1>2, <1>3, <1>4, <1>5
<1>8. QED
  BY <1>4, <1>5, <1>6, <1>7, SeqEqual

(* Matching reads a Route's path and exact flag only. *)
LEMMA MatchFields ==
    ASSUME NEW r, NEW x
    PROVE  Matches(r, x) <=> Matches(Route(r.path, r.exact, r.view), x)
BY DEF Matches, Route

(* Route j of the Switch matches AuthorURL \o T when its tail matches T. *)
LEMMA TailToRoute ==
    ASSUME NEW j \in 1..9, NEW T \in Seq(AllSegs)
    PROVE  Matches(Routes[j], AuthorURL \o T) <=> Matches(TailRoutes[j], T)
<1>1. /\ Routes[j].path = AuthorURL \o TailRoutes[j].path
      /\ Routes[j].exact = TailRoutes[j].exact
      /\ Routes[j].view = TailRoutes[j].view
  BY RoutesShape
<1>2. TailRoutes[j].path \in Seq(AllSegs)
  <2>1. j \in {1, 2, 3, 4, 5, 6, 7, 8, 9}
    OBVIOUS
  <2>3. /\ <<"glossaries", "add-node">> \in Seq(AllSegs)
        /\ <<"glossaries", "edit-node", Param>> \in Seq(AllSegs)
        /\ <<"glossaries">> \in Seq(AllSegs) /\ <<"search">> \in Seq(AllSegs)
        /\ <<"glossaries", Param, "quick-terms">> \in Seq(AllSegs)
        /\ <<"glossaries", Param, "children">> \in Seq(AllSegs)
        /\ <<"crud">> \in Seq(AllSegs) /\ << >> \in Seq(AllSegs)
    BY DEF AllSegs, Keywords
  <2>4. QED
    <3>1. CASE j = 1
      BY <2>3, <3>1 DEF TailRoutes, Route
    <3>2. CASE j = 2
      BY <2>3, <3>2 DEF TailRoutes, Route
    <3>3. CASE j = 3
      BY <2>3, <3>3 DEF TailRoutes, Route
    <3>4. CASE j = 4
      BY <2>3, <3>4 DEF TailRoutes, Route
    <3>5. CASE j = 5
      BY <2>3, <3>5 DEF TailRoutes, Route
    <3>6. CASE j = 6
      BY <2>3, <3>6 DEF TailRoutes, Route
    <3>7. CASE j = 7
      BY <2>3, <3>7 DEF TailRoutes, Route
    <3>8. CASE j = 8
      BY <2>3, <3>8 DEF TailRoutes, Route
    <3>9. CASE j = 9
      BY <2>3, <3>9 DEF TailRoutes, Route
    <3>10. QED
      BY <2>1, <3>1, <3>2, <3>3, <3>4, <3>5, <3>6, <3>7, <3>8, <3>9
<1>3. AuthorURL \in Seq(AllSegs)
  BY RoutesAssumption, SeqMonotonic DEF AllSegs
<1>4. Matches(Route(AuthorURL \o TailRoutes[j].path, TailRoutes[j].exact, TailRoutes[j].view),
              AuthorURL \o T)
      <=> Matches(Route(TailRoutes[j].path, TailRoutes[j].exact, TailRoutes[j].view), T)
  BY <1>2, <1>3, MatchConcat
<1>5. QED
  BY <1>1, <1>4, MatchFields

-----------------------------------------------------------------------------
(* A pattern fails to match where a literal segment differs, or when it is *)
(* exact and the lengths differ.                                            *)
LEMMA NoMatchAt ==
    ASSUME NEW r, NEW T, NEW i \in 1..Len(r.path), i <= Len(T),
           r.path[i] # Param, r.path[i] # T[i]
    PROVE  ~Matches(r, T)
BY DEF Matches

LEMMA MatchAll ==
    ASSUME NEW r, NEW T, Len(r.path) <= Len(T),
           \A i \in 1..Len(r.path) : r.path[i] \in {Param, T[i]},
           r.exact => Len(r.path) = Len(T)
    PROVE  Matches(r, T)
BY DEF Matches

LEMMA NoMatchLonger ==
    ASSUME NEW r, NEW T, Len(r.path) > Len(T)
    PROVE  ~Matches(r, T)
BY DEF Matches

LEMMA NoMatchExact ==
    ASSUME NEW r, NEW T, r.exact = TRUE, Len(r.path) # Len(T)
    PROVE  ~Matches(r, T)
BY Zenon DEF Matches

(* Tail k0 is the first of the nine tails that matches location tail T. *)
TailFirst(k0, T) ==
    /\ Matches(TailRoutes[k0], T)
    /\ \A j \in 1..(k0 - 1) : ~Matches(TailRoutes[j], T)

LEMMA TailCreate ==
    ASSUME NEW g \in Guids
    PROVE  TailFirst(1, Instance(TailRoutes[1].path, g))
<1>1. g \notin Keywords /\ g # Param
  BY RoutesAssumption
<1> DEFINE P == <<"glossaries", "add-node">>
<1>2. TailRoutes[1].path = P /\ P \in Seq(AllSegs)
  BY DEF TailRoutes, Route, AllSegs, Keywords
<1> DEFINE T == Instance(P, g)
<1>3. Len(T) = 2 /\ T[1] = "glossaries" /\ T[2] = "add-node"
  <2>1. Len(T) = Len(P) /\ \A i \in 1..Len(P) : T[i] = IF P[i] = Param THEN g ELSE P[i]
    BY <1>2, InstanceProps
  <2>2. QED
    BY <2>1 DEF Param
<1>4. Matches(TailRoutes[1], T)
  <2>1. TailRoutes[1].path = <<"glossaries", "add-node">> /\ TailRoutes[1].exact = FALSE
    BY DEF TailRoutes, Route
  <2>2. \A i \in 1..Len(TailRoutes[1].path) : TailRoutes[1].path[i] \in {Param, T[i]}
    <3>1. \A i \in 1..Len(TailRoutes[1].path) : i \in {1, 2}
      BY <2>1
    <3>2. QED
      BY <2>1, <3>1, <1>3
  <2>3. Len(TailRoutes[1].path) = Len(T)
    BY <2>1, <1>3
  <2>4. QED
    BY <2>2, <2>3, MatchAll
<1>5. QED
  <2>1. \A j \in 1..(1 - 1) : j \in {}
    OBVIOUS
  <2>2. \A j \in 1..(1 - 1) : ~Matches(TailRoutes[j], T)
    BY <2>1, Zenon
  <2>3. QED
    BY <1>2, <1>4, <2>2 DEF TailFirst

LEMMA TailUpdate ==
    ASSUME NEW g \in Guids
    PROVE  TailFirst(2, Instance(TailRoutes[2].path, g))
<1>1. g \notin Keywords /\ g # Param
  BY RoutesAssumption
<1> DEFINE P == <<"glossaries", "edit-node", Param>>
<1>2. TailRoutes[2].path = P /\ P \in Seq(AllSegs)
  BY DEF TailRoutes, Route, AllSegs, Keywords
<1> DEFINE T == Instance(P, g)
<1>3. Len(T) = 3 /\ T[1] = "glossaries" /\ T[2] = "edit-node" /\ T[3] = g
  <2>1. Len(T) = Len(P) /\ \A i \in 1..Len(P) : T[i] = IF P[i] = Param THEN g ELSE P[i]
    BY <1>2, InstanceProps
  <2>2. QED
    BY <2>1 DEF Param
<1>4. Matches(TailRoutes[2], T)
  <2>1. TailRoutes[2].path = <<"glossaries", "edit-node", Param>> /\ TailRoutes[2].exact = FALSE
    BY DEF TailRoutes, Route
  <2>2. \A i \in 1..Len(TailRoutes[2].path) : TailRoutes[2].path[i] \in {Param, T[i]}
    <3>1. \A i \in 1..Len(TailRoutes[2].path) : i \in {1, 2, 3}
      BY <2>1
    <3>2. QED
      BY <2>1, <3>1, <1>3
  <2>3. Len(TailRoutes[2].path) = Len(T)
    BY <2>1, <1>3
  <2>4. QED
    BY <2>2, <2>3, MatchAll
<1>5. ~Matches(TailRoutes[1], T)
  BY <1>3, <1>1, NoMatchAt DEF TailRoutes, Route, Keywords, Param
<1>6. QED
  <2>1. \A j \in 1..(2 - 1) : j \in {1}
    OBVIOUS
  <2>2. \A j \in 1..(2 - 1) : ~Matches(TailRoutes[j], T)
    BY <1>5, <2>1, Zenon
  <2>3. QED
    BY <1>2, <1>4, <2>2 DEF TailFirst

LEMMA TailGlossaries ==
    ASSUME NEW g \in Guids
    PROVE  TailFirst(3, Instance(TailRoutes[3].path, g))
<1>1. g \notin Keywords /\ g # Param
  BY RoutesAssumption
<1> DEFINE P == <<"glossaries">>
<1>2. TailRoutes[3].path = P /\ P \in Seq(AllSegs)
  BY DEF TailRoutes, Route, AllSegs, Keywords
<1> DEFINE T == Instance(P, g)
<1>3. Len(T) = 1 /\ T[1] = "glossaries"
  <2>1. Len(T) = Len(P) /\ \A i \in 1..Len(P) : T[i] = IF P[i] = Param THEN g ELSE P[i]
    BY <1>2, InstanceProps
  <2>2. QED
    BY <2>1 DEF Param
<1>4. Matches(TailRoutes[3], T)
  <2>1. TailRoutes[3].path = <<"glossaries">> /\ TailRoutes[3].exact = TRUE
    BY DEF TailRoutes, Route
  <2>2. \A i \in 1..Len(TailRoutes[3].path) : TailRoutes[3].path[i] \in {Param, T[i]}
    <3>1. \A i \in 1..Len(TailRoutes[3].path) : i \in {1}
      BY <2>1
    <3>2. QED
      BY <2>1, <3>1, <1>3
  <2>3. Len(TailRoutes[3].path) = Len(T)
    BY <2>1, <1>3
  <2>4. QED
    BY <2>2, <2>3, MatchAll
<1>5. ~Matches(TailRoutes[1], T)
  <2>1. TailRoutes[1].path = <<"glossaries", "add-node">>
    BY DEF TailRoutes, Route
  <2>2. Len(TailRoutes[1].path) > Len(T)
    BY <1>3, <2>1
  <2>3. QED
    BY <2>2, NoMatchLonger
<1>6. ~Matches(TailRoutes[2], T)
  <2>1. TailRoutes[2].path = <<"glossaries", "edit-node", Param>>
    BY DEF TailRoutes, Route
  <2>2. Len(TailRoutes[2].path) > Len(T)
    BY <1>3, <2>1
  <2>3. QED
    BY <2>2, NoMatchLonger
<1>7. QED
  <2>1. \A j \in 1..(3 - 1) : j \in {1, 2}
    OBVIOUS
  <2>2. \A j \in 1..(3 - 1) : ~Matches(TailRoutes[j], T)
    BY <1>5, <1>6, <2>1, Zenon
  <2>3. QED
    BY <1>2, <1>4, <2>2 DEF TailFirst

LEMMA TailSearch ==
    ASSUME NEW g \in Guids
    PROVE  TailFirst(4, Instance(TailRoutes[4].path, g))
<1>1. g \notin Keywords /\ g # Param
  BY RoutesAssumption
<1> DEFINE P == <<"search">>
<1>2. TailRoutes[4].path = P /\ P \in Seq(AllSegs)
  BY DEF TailRoutes, Route, AllSegs, Keywords
<1> DEFINE T == Instance(P, g)
<1>3. Len(T) = 1 /\ T[1] = "search"
  <2>1. Len(T) = Len(P) /\ \A i \in 1..Len(P) : T[i] = IF P[i] = Param THEN g ELSE P[i]
    BY <1>2, InstanceProps
  <2>2. QED
    BY <2>1 DEF Param
<1>4. Matches(TailRoutes[4], T)
  <2>1. TailRoutes[4].path = <<"search">> /\ TailRoutes[4].exact = FALSE
    BY DEF TailRoutes, Route
  <2>2. \A i \in 1..Len(TailRoutes[4].path) : TailRoutes[4].path[i] \in {Param, T[i]}
    <3>1. \A i \in 1..Len(TailRoutes[4].path) : i \in {1}
      BY <2>1
    <3>2. QED
      BY <2>1, <3>1, <1>3
  <2>3. Len(TailRoutes[4].path) = Len(T)
    BY <2>1, <1>3
  <2>4. QED
    BY <2>2, <2>3, MatchAll
<1>5. ~Matches(TailRoutes[1], T)
  <2>1. TailRoutes[1].path = <<"glossaries", "add-node">>
    BY DEF TailRoutes, Route
  <2>2. Len(TailRoutes[1].path) > Len(T)
    BY <1>3, <2>1
  <2>3. QED
    BY <2>2, NoMatchLonger
<1>6. ~Matches(TailRoutes[2], T)
  <2>1. TailRoutes[2].path = <<"glossaries", "edit-node", Param>>
    BY DEF TailRoutes, Route
  <2>2. Len(TailRoutes[2].path) > Len(T)
    BY <1>3, <2>1
  <2>3. QED
    BY <2>2, NoMatchLonger
<1>7. ~Matches(TailRoutes[3], T)
  BY <1>3, <1>1, NoMatchAt DEF TailRoutes, Route, Keywords, Param
<1>8. QED
  <2>1. \A j \in 1..(4 - 1) : j \in {1, 2, 3}
    OBVIOUS
  <2>2. \A j \in 1..(4 - 1) : ~Matches(TailRoutes[j], T)
    BY <1>5, <1>6, <1>7, <2>1, Zenon
  <2>3. QED
    BY <1>2, <1>4, <2>2 DEF TailFirst

LEMMA TailQuickTerms ==
    ASSUME NEW g \in Guids
    PROVE  TailFirst(5, Instance(TailRoutes[5].path, g))
<1>1. g \notin Keywords /\ g # Param
  BY RoutesAssumption
<1> DEFINE P == <<"glossaries", Param, "quick-terms">>
<1>2. TailRoutes[5].path = P /\ P \in Seq(AllSegs)
  BY DEF TailRoutes, Route, AllSegs, Keywords
<1> DEFINE T == Instance(P, g)
<1>3. Len(T) = 3 /\ T[1] = "glossaries" /\ T[2] = g /\ T[3] = "quick-terms"
  <2>1. Len(T) = Len(P) /\ \A i \in 1..Len(P) : T[i] = IF P[i] = Param THEN g ELSE P[i]
    BY <1>2, InstanceProps
  <2>2. QED
    BY <2>1 DEF Param
<1>4. Matches(TailRoutes[5], T)
  <2>1. TailRoutes[5].path = <<"glossaries", Param, "quick-terms">> /\ TailRoutes[5].exact = FALSE
    BY DEF TailRoutes, Route
  <2>2. \A i \in 1..Len(TailRoutes[5].path) : TailRoutes[5].path[i] \in {Param, T[i]}
    <3>1. \A i \in 1..Len(TailRoutes[5].path) : i \in {1, 2, 3}
      BY <2>1
    <3>2. QED
      BY <2>1, <3>1, <1>3
  <2>3. Len(TailRoutes[5].path) = Len(T)
    BY <2>1, <1>3
  <2>4. QED
    BY <2>2, <2>3, MatchAll
<1>5. ~Matches(TailRoutes[1], T)
  BY <1>3, <1>1, NoMatchAt DEF TailRoutes, Route, Keywords, Param
<1>6. ~Matches(TailRoutes[2], T)
  BY <1>3, <1>1, NoMatchAt DEF TailRoutes, Route, Keywords, Param
<1>7. ~Matches(TailRoutes[3], T)
  BY <1>3, NoMatchExact DEF TailRoutes, Route, Keywords, Param
<1>8. ~Matches(TailRoutes[4], T)
  BY <1>3, <1>1, NoMatchAt DEF TailRoutes, Route, Keywords, Param
<1>9. QED
  <2>1. \A j \in 1..(5 - 1) : j \in {1, 2, 3, 4}
    OBVIOUS
  <2>2. \A j \in 1..(5 - 1) : ~Matches(TailRoutes[j], T)
    BY <1>5, <1>6, <1>7, <1>8, <2>1, Zenon
  <2>3. QED
    BY <1>2, <1>4, <2>2 DEF TailFirst

LEMMA TailChildren ==
    ASSUME NEW g \in Guids
    PROVE  TailFirst(6, Instance(TailRoutes[6].path, g))
<1>1. g \notin Keywords /\ g # Param
  BY RoutesAssumption
<1> DEFINE P == <<"glossaries", Param, "children">>
<1>2. TailRoutes[6].path = P /\ P \in Seq(AllSegs)
  BY DEF TailRoutes, Route, AllSegs, Keywords
<1> DEFINE T == Instance(P, g)
<1>3. Len(T) = 3 /\ T[1] = "glossaries" /\ T[2] = g /\ T[3] = "children"
  <2>1. Len(T) = Len(P) /\ \A i \in 1..Len(P) : T[i] = IF P[i] = Param THEN g ELSE P[i]
    BY <1>2, InstanceProps
  <2>2. QED
    BY <2>1 DEF Param
<1>4. Matches(TailRoutes[6], T)
  <2>1. TailRoutes[6].path = <<"glossaries", Param, "children">> /\ TailRoutes[6].exact = FALSE
    BY DEF TailRoutes, Route
  <2>2. \A i \in 1..Len(TailRoutes[6].path) : TailRoutes[6].path[i] \in {Param, T[i]}
    <3>1. \A i \in 1..Len(TailRoutes[6].path) : i \in {1, 2, 3}
      BY <2>1
    <3>2. QED
      BY <2>1, <3>1, <1>3
  <2>3. Len(TailRoutes[6].path) = Len(T)
    BY <2>1, <1>3
  <2>4. QED
    BY <2>2, <2>3, MatchAll
<1>5. ~Matches(TailRoutes[1], T)
  BY <1>3, <1>1, NoMatchAt DEF TailRoutes, Route, Keywords, Param
<1>6. ~Matches(TailRoutes[2], T)
  BY <1>3, <1>1, NoMatchAt DEF TailRoutes, Route, Keywords, Param
<1>7. ~Matches(TailRoutes[3], T)
  BY <1>3, NoMatchExact DEF TailRoutes, Route, Keywords, Param
<1>8. ~Matches(TailRoutes[4], T)
  BY <1>3, <1>1, NoMatchAt DEF TailRoutes, Route, Keywords, Param
<1>9. ~Matches(TailRoutes[5], T)
  BY <1>3, <1>1, NoMatchAt DEF TailRoutes, Route, Keywords, Param
<1>10. QED
  <2>1. \A j \in 1..(6 - 1) : j \in {1, 2, 3, 4, 5}
    OBVIOUS
  <2>2. \A j \in 1..(6 - 1) : ~Matches(TailRoutes[j], T)
    BY <1>5, <1>6, <1>7, <1>8, <1>9, <2>1, Zenon
  <2>3. QED
    BY <1>2, <1>4, <2>2 DEF TailFirst

LEMMA TailGlossariesPrefix ==
    ASSUME NEW g \in Guids
    PROVE  TailFirst(3, Instance(TailRoutes[7].path, g))
<1>1. g \notin Keywords /\ g # Param
  BY RoutesAssumption
<1> DEFINE P == <<"glossaries">>
<1>2. TailRoutes[7].path = P /\ P \in Seq(AllSegs)
  BY DEF TailRoutes, Route, AllSegs, Keywords
<1> DEFINE T == Instance(P, g)
<1>3. Len(T) = 1 /\ T[1] = "glossaries"
  <2>1. Len(T) = Len(P) /\ \A i \in 1..Len(P) : T[i] = IF P[i] = Param THEN g ELSE P[i]
    BY <1>2, InstanceProps
  <2>2. QED
    BY <2>1 DEF Param
<1>4. Matches(TailRoutes[3], T)
  <2>1. TailRoutes[3].path = <<"glossaries">> /\ TailRoutes[3].exact = TRUE
    BY DEF TailRoutes, Route
  <2>2. \A i \in 1..Len(TailRoutes[3].path) : TailRoutes[3].path[i] \in {Param, T[i]}
    <3>1. \A i \in 1..Len(TailRoutes[3].path) : i \in {1}
      BY <2>1
    <3>2. QED
      BY <2>1, <3>1, <1>3
  <2>3. Len(TailRoutes[3].path) = Len(T)
    BY <2>1, <1>3
  <2>4. QED
    BY <2>2, <2>3, MatchAll
<1>5. ~Matches(TailRoutes[1], T)
  <2>1. TailRoutes[1].path = <<"glossaries", "add-node">>
    BY DEF TailRoutes, Route
  <2>2. Len(TailRoutes[1].path) > Len(T)
    BY <1>3, <2>1
  <2>3. QED
    BY <2>2, NoMatchLonger
<1>6. ~Matches(TailRoutes[2], T)
  <2>1. TailRoutes[2].path = <<"glossaries", "edit-node", Param>>
    BY DEF TailRoutes, Route
  <2>2. Len(TailRoutes[2].path) > Len(T)
    BY <1>3, <2>1
  <2>3. QED
    BY <2>2, NoMatchLonger
<1>7. QED
  <2>1. \A j \in 1..(3 - 1) : j \in {1, 2}
    OBVIOUS
  <2>2. \A j \in 1..(3 - 1) : ~Matches(TailRoutes[j], T)
    BY <1>5, <1>6, <2>1, Zenon
  <2>3. QED
    BY <1>2, <1>4, <2>2 DEF TailFirst

LEMMA TailCrud ==
    ASSUME NEW g \in Guids
    PROVE  TailFirst(8, Instance(TailRoutes[8].path, g))
<1>1. g \notin Keywords /\ g # Param
  BY RoutesAssumption
<1> DEFINE P == <<"crud">>
<1>2. TailRoutes[8].path = P /\ P \in Seq(AllSegs)
  BY DEF TailRoutes, Route, AllSegs, Keywords
<1> DEFINE T == Instance(P, g)
<1>3. Len(T) = 1 /\ T[1] = "crud"
  <2>1. Len(T) = Len(P) /\ \A i \in 1..Len(P) : T[i] = IF P[i] = Param THEN g ELSE P[i]
    BY <1>2, InstanceProps
  <2>2. QED
    BY <2>1 DEF Param
<1>4. Matches(TailRoutes[8], T)
  <2>1. TailRoutes[8].path = <<"crud">> /\ TailRoutes[8].exact = FALSE
    BY DEF TailRoutes, Route
  <2>2. \A i \in 1..Len(TailRoutes[8].path) : TailRoutes[8].path[i] \in {Param, T[i]}
    <3>1. \A i \in 1..Len(TailRoutes[8].path) : i \in {1}
      BY <2>1
    <3>2. QED
      BY <2>1, <3>1, <1>3
  <2>3. Len(TailRoutes[8].path) = Len(T)
    BY <2>1, <1>3
  <2>4. QED
    BY <2>2, <2>3, MatchAll
<1>5. ~Matches(TailRoutes[1], T)
  <2>1. TailRoutes[1].path = <<"glossaries", "add-node">>
    BY DEF TailRoutes, Route
  <2>2. Len(TailRoutes[1].path) > Len(T)
    BY <1>3, <2>1
  <2>3. QED
    BY <2>2, NoMatchLonger
<1>6. ~Matches(TailRoutes[2], T)
  <2>1. TailRoutes[2].path = <<"glossaries", "edit-node", Param>>
    BY DEF TailRoutes, Route
  <2>2. Len(TailRoutes[2].path) > Len(T)
    BY <1>3, <2>1
  <2>3. QED
    BY <2>2, NoMatchLonger
<1>7. ~Matches(TailRoutes[3], T)
  BY <1>3, <1>1, NoMatchAt DEF TailRoutes, Route, Keywords, Param
<1>8. ~Matches(TailRoutes[4], T)
  BY <1>3, <1>1, NoMatchAt DEF TailRoutes, Route, Keywords, Param
<1>9. ~Matches(TailRoutes[5], T)
  <2>1. TailRoutes[5].path = <<"glossaries", Param, "quick-terms">>
    BY DEF TailRoutes, Route
  <2>2. Len(TailRoutes[5].path) > Len(T)
    BY <1>3, <2>1
  <2>3. QED
    BY <2>2, NoMatchLonger
<1>10. ~Matches(TailRoutes[6], T)
  <2>1. TailRoutes[6].path = <<"glossaries", Param, "children">>
    BY DEF TailRoutes, Route
  <2>2. Len(TailRoutes[6].path) > Len(T)
    BY <1>3, <2>1, SMTT(30)
  <2>3. QED
    BY <2>2, NoMatchLonger
<1>11. ~Matches(TailRoutes[7], T)
  BY <1>3, <1>1, NoMatchAt DEF TailRoutes, Route, Keywords, Param
<1>12. QED
  <2>1. \A j \in 1..(8 - 1) : j \in {1, 2, 3, 4, 5, 6, 7}
    OBVIOUS
  <2>2. \A j \in 1..(8 - 1) : ~Matches(TailRoutes[j], T)
    BY <1>5, <1>6, <1>7, <1>8, <1>9, <1>10, <1>11, <2>1, Zenon
  <2>3. QED
    BY <1>2, <1>4, <2>2 DEF TailFirst

LEMMA TailAuthor ==
    ASSUME NEW g \in Guids
    PROVE  TailFirst(9, Instance(TailRoutes[9].path, g))
<1>1. g \notin Keywords /\ g # Param
  BY RoutesAssumption
<1> DEFINE P == << >>
<1>2. TailRoutes[9].path = P /\ P \in Seq(AllSegs)
  BY DEF TailRoutes, Route, AllSegs, Keywords
<1> DEFINE T == Instance(P, g)
<1>3. Len(T) = 0
  BY <1>2, InstanceProps
<1>4. Matches(TailRoutes[9], T)
  <2>1. TailRoutes[9].path = << >> /\ TailRoutes[9].exact = TRUE
    BY DEF TailRoutes, Route
  <2>2. \A i \in 1..Len(TailRoutes[9].path) : TailRoutes[9].path[i] \in {Param, T[i]}
    <3>1. \A i \in 1..Len(TailRoutes[9].path) : i \in {}
      BY <2>1
    <3>2. QED
      BY <2>1, <3>1, <1>3
  <2>3. Len(TailRoutes[9].path) = Len(T)
    BY <2>1, <1>3
  <2>4. QED
    BY <2>2, <2>3, MatchAll
<1>5. ~Matches(TailRoutes[1], T)
  <2>1. TailRoutes[1].path = <<"glossaries", "add-node">>
    BY DEF TailRoutes, Route
  <2>2. Len(TailRoutes[1].path) > Len(T)
    BY <1>3, <2>1
  <2>3. QED
    BY <2>2, NoMatchLonger
<1>6. ~Matches(TailRoutes[2], T)
  <2>1. TailRoutes[2].path = <<"glossaries", "edit-node", Param>>
    BY DEF TailRoutes, Route
  <2>2. Len(TailRoutes[2].path) > Len(T)
    BY <1>3, <2>1
  <2>3. QED
    BY <2>2, NoMatchLonger
<1>7. ~Matches(TailRoutes[3], T)
  <2>1. TailRoutes[3].path = <<"glossaries">>
    BY DEF TailRoutes, Route
  <2>2. Len(TailRoutes[3].path) > Len(T)
    BY <1>3, <2>1
  <2>3. QED
    BY <2>2, NoMatchLonger
<1>8. ~Matches(TailRoutes[4], T)
  <2>1. TailRoutes[4].path = <<"search">>
    BY DEF TailRoutes, Route
  <2>2. Len(TailRoutes[4].path) > Len(T)
    BY <1>3, <2>1
  <2>3. QED
    BY <2>2, NoMatchLonger
<1>9. ~Matches(TailRoutes[5], T)
  <2>1. TailRoutes[5].path = <<"glossaries", Param, "quick-terms">>
    BY DEF TailRoutes, Route
  <2>2. Len(TailRoutes[5].path) > Len(T)
    BY <1>3, <2>1
  <2>3. QED
    BY <2>2, NoMatchLonger
<1>10. ~Matches(TailRoutes[6], T)
  <2>1. TailRoutes[6].path = <<"glossaries", Param, "children">>
    BY DEF TailRoutes, Route
  <2>2. Len(TailRoutes[6].path) > Len(T)
    BY <1>3, <2>1
  <2>3. QED
    BY <2>2, NoMatchLonger
<1>11. ~Matches(TailRoutes[7], T)
  <2>1. TailRoutes[7].path = <<"glossaries">>
    BY DEF TailRoutes, Route
  <2>2. Len(TailRoutes[7].path) > Len(T)
    BY <1>3, <2>1
  <2>3. QED
    BY <2>2, NoMatchLonger
<1>12. ~Matches(TailRoutes[8], T)
  <2>1. TailRoutes[8].path = <<"crud">>
    BY DEF TailRoutes, Route
  <2>2. Len(TailRoutes[8].path) > Len(T)
    BY <1>3, <2>1
  <2>3. QED
    BY <2>2, NoMatchLonger
<1>13. QED
  <2>1. \A j \in 1..(9 - 1) : j \in {1, 2, 3, 4, 5, 6, 7, 8}
    OBVIOUS
  <2>2. \A j \in 1..(9 - 1) : ~Matches(TailRoutes[j], T)
    BY <1>5, <1>6, <1>7, <1>8, <1>9, <1>10, <1>11, <1>12, <2>1, Zenon
  <2>3. QED
    BY <1>2, <1>4, <2>2 DEF TailFirst


(* The tail paths are sequences of pattern segments. *)
LEMMA TailPathsTyped ==
    \A k \in 1..9 : TailRoutes[k].path \in Seq(AllSegs)
<1>1. \A k \in 1..9 : k \in {1, 2, 3, 4, 5, 6, 7, 8, 9}
  OBVIOUS
<1>2. TailRoutes[1].path \in Seq(AllSegs)
  <2>1. TailRoutes[1].path = <<"glossaries", "add-node">>
    BY DEF TailRoutes, Route
  <2>2. <<"glossaries", "add-node">> \in Seq(AllSegs)
    BY DEF AllSegs, Keywords
  <2>3. QED
    BY <2>1, <2>2
<1>3. TailRoutes[2].path \in Seq(AllSegs)
  <2>1. TailRoutes[2].path = <<"glossaries", "edit-node", Param>>
    BY DEF TailRoutes, Route
  <2>2. <<"glossaries", "edit-node", Param>> \in Seq(AllSegs)
    BY DEF AllSegs, Keywords
  <2>3. QED
    BY <2>1, <2>2
<1>4. TailRoutes[3].path \in Seq(AllSegs)
  <2>1. TailRoutes[3].path = <<"glossaries">>
    BY DEF TailRoutes, Route
  <2>2. <<"glossaries">> \in Seq(AllSegs)
    BY DEF AllSegs, Keywords
  <2>3. QED
    BY <2>1, <2>2
<1>5. TailRoutes[4].path \in Seq(AllSegs)
  <2>1. TailRoutes[4].path = <<"search">>
    BY DEF TailRoutes, Route
  <2>2. <<"search">> \in Seq(AllSegs)
    BY DEF AllSegs, Keywords
  <2>3. QED
    BY <2>1, <2>2
<1>6. TailRoutes[5].path \in Seq(AllSegs)
  <2>1. TailRoutes[5].path = <<"glossaries", Param, "quick-terms">>
    BY DEF TailRoutes, Route
  <2>2. <<"glossaries", Param, "quick-terms">> \in Seq(AllSegs)
    BY DEF AllSegs, Keywords
  <2>3. QED
    BY <2>1, <2>2
<1>7. TailRoutes[6].path \in Seq(AllSegs)
  <2>1. TailRoutes[6].path = <<"glossaries", Param, "children">>
    BY DEF TailRoutes, Route
  <2>2. <<"glossaries", Param, "children">> \in Seq(AllSegs)
    BY DEF AllSegs, Keywords
  <2>3. QED
    BY <2>1, <2>2
<1>8. TailRoutes[7].path \in Seq(AllSegs)
  <2>1. TailRoutes[7].path = <<"glossaries">>
    BY DEF TailRoutes, Route
  <2>2. <<"glossaries">> \in Seq(AllSegs)
    BY DEF AllSegs, Keywords
  <2>3. QED
    BY <2>1, <2>2
<1>9. TailRoutes[8].path \in Seq(AllSegs)
  <2>1. TailRoutes[8].path = <<"crud">>
    BY DEF TailRoutes, Route
  <2>2. <<"crud">> \in Seq(AllSegs)
    BY DEF AllSegs, Keywords
  <2>3. QED
    BY <2>1, <2>2
<1>10. TailRoutes[9].path \in Seq(AllSegs)
  <2>1. TailRoutes[9].path = << >>
    BY DEF TailRoutes, Route
  <2>2. << >> \in Seq(AllSegs)
    BY DEF AllSegs, Keywords
  <2>3. QED
    BY <2>1, <2>2
<1>11. QED
  BY <1>1, <1>2, <1>3, <1>4, <1>5, <1>6, <1>7, <1>8, <1>9, <1>10, Zenon

(* When the bound tail first matches tail Route k0, the whole location     *)
(* first matches Route k0 of the Switch, which renders its view.           *)
LEMMA TailSelect ==
    ASSUME NEW k \in 1..9, NEW k0 \in 1..9, NEW g \in Guids,
           TailRoutes[k].path \in Seq(AllSegs),
           TailFirst(k0, Instance(TailRoutes[k].path, g)),
           TailRoutes[k0].view = TailRoutes[k].view
    PROVE  Select(Instance(Routes[k].path, g)) = Routes[k].view
<1> DEFINE T == Instance(TailRoutes[k].path, g)
<1>1. T \in Seq(AllSegs)
  BY InstanceProps
<1>2. Instance(Routes[k].path, g) = AuthorURL \o T
  BY RoutesShape, InstanceConcat
<1>3. Matches(Routes[k0], AuthorURL \o T)
  BY <1>1, TailToRoute DEF TailFirst
<1>4. \A j \in 1..(k0 - 1) : ~Matches(Routes[j], AuthorURL \o T)
  <2> SUFFICES ASSUME NEW j \in 1..(k0 - 1) PROVE ~Matches(Routes[j], AuthorURL \o T)
    OBVIOUS
  <2>1. j \in 1..9 /\ ~Matches(TailRoutes[j], T)
    BY DEF TailFirst
  <2>2. QED
    BY <1>1, <2>1, TailToRoute
<1>5. Select(AuthorURL \o T) = Routes[k0].view
  BY <1>3, <1>4, SelectFirst
<1>6. Routes[k0].view = Routes[k].view
  BY RoutesShape
<1>7. QED
  BY <1>2, <1>5, <1>6

(* Every Route of the Switch is reachable: the location made of its         *)
(* pattern, with a GUID for the parameter, renders the Route's own view.   *)
LEMMA RouteSelected ==
    \A k \in DOMAIN Routes, g \in Guids :
        Select(Instance(Routes[k].path, g)) = Routes[k].view
<1> SUFFICES ASSUME NEW k \in DOMAIN Routes, NEW g \in Guids
             PROVE  Select(Instance(Routes[k].path, g)) = Routes[k].view
  OBVIOUS
<1>1. \A j \in 1..9 : TailRoutes[j].path \in Seq(AllSegs)
  BY TailPathsTyped
<1>2. TailRoutes[3].view = TailRoutes[7].view
  BY DEF TailRoutes, Route
<1>3. CASE k \in 1..9
  <2>1. k \in {1, 2, 3, 4, 5, 6, 7, 8, 9}
    BY <1>3
  <2>2. CASE k = 1
    BY <2>2, <1>1, TailCreate, TailSelect
  <2>3. CASE k = 2
    BY <2>3, <1>1, TailUpdate, TailSelect
  <2>4. CASE k = 3
    BY <2>4, <1>1, TailGlossaries, TailSelect
  <2>5. CASE k = 4
    BY <2>5, <1>1, TailSearch, TailSelect
  <2>6. CASE k = 5
    BY <2>6, <1>1, TailQuickTerms, TailSelect
  <2>7. CASE k = 6
    BY <2>7, <1>1, TailChildren, TailSelect
  <2>8. CASE k = 7
    BY <2>8, <1>1, TailGlossariesPrefix, TailSelect, <1>2
  <2>9. CASE k = 8
    BY <2>9, <1>1, TailCrud, TailSelect
  <2>10. CASE k = 9
    BY <2>10, <1>1, TailAuthor, TailSelect
  <2>11. QED
    BY <2>1, <2>2, <2>3, <2>4, <2>5, <2>6, <2>7, <2>8, <2>9, <2>10
<1>4. CASE k = 10
  <2>1. Routes[10] = Route(<< >>, FALSE, "NotRecognised")
    BY RoutesShape
  <2>2. Instance(Routes[k].path, g) = << >>
    BY <1>4, <2>1 DEF Instance, Route
  <2>3. Matches(Routes[10], << >>)
    BY <2>1 DEF Matches, Route
  <2>4. \A j \in 1..9 : ~Matches(Routes[j], << >>)
    <3> SUFFICES ASSUME NEW j \in 1..9 PROVE ~Matches(Routes[j], << >>)
      OBVIOUS
    <3>1. AuthorURL \in Seq(AllSegs) /\ Len(AuthorURL) > 0
      BY RoutesAssumption DEF AllSegs
    <3>2. Routes[j].path = AuthorURL \o TailRoutes[j].path
      BY RoutesShape
    <3>3. Len(Routes[j].path) > 0
      BY <1>1, <3>1, <3>2
    <3>4. QED
      BY <3>3, NoMatchLonger
  <2>5. QED
    BY <1>4, <2>2, <2>3, <2>4, SelectFirst
<1>5. QED
  BY <1>3, <1>4, RoutesShape


-----------------------------------------------------------------------------
(* The Switch is re-rendered for every location the router sees: the view *)
(* shown is always the one Select computes for the current location.       *)
ViewSelected == view = Select(location)

LEMMA InitViewSelected == Init => ViewSelected
BY DEF Init, ViewSelected

LEMMA NextViewSelected == ViewSelected /\ [Next]_vars => ViewSelected'
<1> SUFFICES ASSUME ViewSelected, [Next]_vars PROVE ViewSelected'
  OBVIOUS
<1>1. CASE Next
  BY <1>1 DEF Next, Navigate, ViewSelected
<1>2. CASE UNCHANGED vars
  BY <1>2 DEF vars, ViewSelected
<1>3. QED
  BY <1>1, <1>2

(* Every Route of the GlossaryAuthorRoutes Switch is reachable in every   *)
(* state, whatever AuthorURL and the GUIDs are: a location that is a       *)
(* Route's pattern with a GUID bound renders that Route's view; the one   *)
(* Route shadowed on its own path (the second glossaries Route) is         *)
(* shadowed by a Route with the same view.                                 *)
THEOREM RoutesCorrect == Spec => []RoutesAsDeclared
<1>1. ViewSelected => RoutesAsDeclared
  BY RouteSelected DEF ViewSelected, RoutesAsDeclared
<1>2. QED
  BY <1>1, InitViewSelected, NextViewSelected, PTL DEF Spec

=============================================================================
