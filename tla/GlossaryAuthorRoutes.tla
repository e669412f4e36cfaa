------------------------- MODULE GlossaryAuthorRoutes -------------------------
(***************************************************************************)
(* The route table of the Glossary Author (GlossaryAuthorRoutes.js).       *)
(*                                                                         *)
(* The component builds path patterns from its glossaryAuthorURL prop and  *)
(* renders a react-router Switch: the first Route whose pattern matches    *)
(* the browser location renders its view.  A pattern matches a location    *)
(* when its segments are a prefix of the location's segments (all of them  *)
(* for an exact Route), a ":guid" parameter matching any one segment.      *)
(* Paths are sequences of segments; the matching is case-insensitive, so   *)
(* a segment stands for its lower-case form.                               *)
(***************************************************************************)
EXTENDS Naturals, Sequences

CONSTANTS
    AuthorURL,  \* glossaryAuthorURL: the segments of "/<server>/glossary-author"
    Guids,      \* glossary GUIDs a location can carry
    Others,     \* other segments, those of AuthorURL among them
    MaxTail     \* bound on the segments a location has after AuthorURL

(* The literal segments of the patterns. *)
Keywords == {"glossaries", "add-node", "edit-node", "quick-terms", "children",
             "crud", "search"}

(* The ":guid" parameter of a pattern. *)
Param == ":guid"

ASSUME RoutesAssumption ==
    /\ AuthorURL \in Seq(Others) /\ AuthorURL # << >>
    /\ Guids \cap (Keywords \cup Others \cup {Param}) = {}
    /\ Param \notin Others /\ Keywords \cap Others = {}
    /\ MaxTail \in Nat

VARIABLES
    location,  \* the browser location the router sees, as segments
    view       \* the view the Switch renders

vars == <<location, view>>

-----------------------------------------------------------------------------
(* The path builders of the component. *)
GetGlossariesPath == AuthorURL \o <<"glossaries">>

GetGlossariesAddPath == GetGlossariesPath \o <<"add-node">>

GetQuickTermsPath == GetGlossariesPath \o <<Param, "quick-terms">>

GetGlossaryChildrenPath == GetGlossariesPath \o <<Param, "children">>

GetGlossariesEditPath == GetGlossariesPath \o <<"edit-node", Param>>

GetCrudPath == AuthorURL \o <<"crud">>

GetSearchPath == AuthorURL \o <<"search">>

Route(path, exact, v) == [path |-> path, exact |-> exact, view |-> v]

(* Mutant: the exact attribute of the glossaries route is lost. *)
RoutesNoExactGlossaries ==
    << Route(GetGlossariesAddPath, FALSE, "CreateGlossary"),
       Route(GetGlossariesEditPath, FALSE, "UpdateGlossary"),
       Route(GetGlossariesPath, FALSE, "GlossaryAuthorNavigation"),
       Route(GetSearchPath, FALSE, "GlossaryAuthorSearch"),
       Route(GetQuickTermsPath, FALSE, "QuickTerms"),
       Route(GetGlossaryChildrenPath, FALSE, "GlossaryChildren"),
       Route(GetGlossariesPath, FALSE, "GlossaryAuthorNavigation"),
       Route(GetCrudPath, FALSE, "GlossaryAuthorCRUD"),
       Route(AuthorURL, TRUE, "GlossaryAuthorNavigation"),
       Route(<< >>, FALSE, "NotRecognised") >>

(* The Routes of the Switch, in their order; "/" is the empty pattern. *)
Routes ==
    << Route(GetGlossariesAddPath, FALSE, "CreateGlossary"),
       Route(GetGlossariesEditPath, FALSE, "UpdateGlossary"),
       Route(GetGlossariesPath, TRUE, "GlossaryAuthorNavigation"),
       Route(GetSearchPath, FALSE, "GlossaryAuthorSearch"),
       Route(GetQuickTermsPath, FALSE, "QuickTerms"),
       Route(GetGlossaryChildrenPath, FALSE, "GlossaryChildren"),
       Route(GetGlossariesPath, FALSE, "GlossaryAuthorNavigation"),
       Route(GetCrudPath, FALSE, "GlossaryAuthorCRUD"),
       Route(AuthorURL, TRUE, "GlossaryAuthorNavigation"),
       Route(<< >>, FALSE, "NotRecognised") >>

(* A Route's pattern matches a path: segment by segment over the pattern's *)
(* length, a parameter matching any segment, and the whole path if exact.  *)
Matches(route, path) ==
    /\ Len(route.path) <= Len(path)
    /\ \A i \in 1..Len(route.path) : route.path[i] \in {Param, path[i]}
    /\ route.exact => Len(route.path) = Len(path)

(* The Switch renders the view of the first Route that matches. *)
Select(path) ==
    LET first == CHOOSE k \in DOMAIN Routes :
                     /\ Matches(Routes[k], path)
                     /\ \A j \in 1..(k - 1) : ~Matches(Routes[j], path)
    IN  Routes[first].view

(* The locations a user can open: under AuthorURL with a bounded tail, the *)
(* root, and a path outside the Glossary Author.                           *)
Segments == Keywords \cup Guids \cup Others

Tails == UNION {[1..n -> Segments] : n \in 0..MaxTail}

Locations == {AuthorURL \o t : t \in Tails} \cup {<< >>} \cup {<<o>> : o \in Others}

-----------------------------------------------------------------------------
Init ==
    /\ location = AuthorURL
    /\ view = Select(AuthorURL)

(* The user follows a link or types a URL: the router re-renders the       *)
(* Switch for the new location.                                            *)
Navigate(p) ==
    /\ location' = p
    /\ view' = Select(p)

Next == \E p \in Locations : Navigate(p)

Spec == Init /\ [][Next]_vars

-----------------------------------------------------------------------------
(* The path with the parameter of a pattern bound to GUID g. *)
Instance(pattern, g) ==
    [i \in DOMAIN pattern |-> IF pattern[i] = Param THEN g ELSE pattern[i]]

(* Every declared route is reachable (spec section 8(4)): a location that  *)
(* is the pattern of a Route, with a GUID for its parameter, renders that  *)
(* Route's view: an earlier Route that also matches it (the exact         *)
(* glossaries Route before the prefix one) must render the same view.     *)
RoutesAsDeclared ==
    \A k \in DOMAIN Routes, g \in Guids :
        location = Instance(Routes[k].path, g) => view = Routes[k].view

=============================================================================
