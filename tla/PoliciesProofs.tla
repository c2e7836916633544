---------------------------- MODULE PoliciesProofs ----------------------------
(* Theorems about PolicyStore, for any objects, devices, sessions and limits, *)
(* and about PolicyEvaluation, for any clocks, ages and delays.              *)
EXTENDS PolicyStore, PolicyEvaluation, FiniteSetTheorems, WellFoundedInduction, TLAPS

\* What a session loaded is an earlier state of an object that is still there,
\* or its present one.
Loaded(row, objects) ==
    /\ row.id \in DOMAIN objects
    /\ row.revision <= objects[row.id].revision
    /\ row.revision = objects[row.id].revision => row.edits = objects[row.id].edits

Follows(e) ==
    draft[e] # NULL =>
        /\ draft[e].revision \in Nat
        /\ draft[e].revision # 0 /\ draft[e].kind = "groups" => Loaded(draft[e], groups)
        /\ draft[e].revision # 0 /\ draft[e].kind = "policies" => Loaded(draft[e], policies)

DraftInv ==
    /\ DOMAIN draft = Editor
    /\ \A objects \in {groups, policies} : \A id \in DOMAIN objects : objects[id].revision \in Nat
    /\ \A e \in Editor : Follows(e)

LEMMA Initially == Init => DraftInv
BY DEF Init, DraftInv, Follows

\* A revision that is loaded is the present one.
LEMMA OpenKeeps ==
    ASSUME DraftInv, NEW e \in Editor, NEW kind \in {"groups", "policies"}, NEW id, Open(e, kind, id)
    PROVE  DraftInv'
<1> DEFINE objects == Objects(kind)
           row == IF id \in DOMAIN objects
                  THEN [kind |-> kind, id |-> id, revision |-> objects[id].revision,
                        edits |-> objects[id].edits]
                  ELSE [kind |-> kind, id |-> id, revision |-> 0, edits |-> {}]
<1>1. draft' = [draft EXCEPT ![e] = row] /\ UNCHANGED <<groups, policies>>
    BY DEF Open
<1>2. /\ row.kind = kind /\ row.revision \in Nat
      /\ row.revision # 0 => Loaded(row, objects)
    BY DEF DraftInv, Objects, Loaded
<1> HIDE DEF row
<1>3. Follows(e)'
    BY <1>1, <1>2 DEF DraftInv, Follows, Objects
<1>4. \A f \in Editor \ {e} : Follows(f)'
    BY <1>1 DEF DraftInv, Follows
<1> QED BY <1>1, <1>3, <1>4 DEF DraftInv

\* An object that is put in the place of its last revision outdates what was
\* loaded of it and leaves the rest.
LEMMA PutOutdates ==
    ASSUME NEW objects, NEW id, NEW object, NEW row,
           \A i \in DOMAIN objects : objects[i].revision \in Nat,
           row.revision \in Nat, object.revision \in Nat,
           id \in DOMAIN objects => object.revision > objects[id].revision,
           Loaded(row, objects)
    PROVE  Loaded(row, Put(objects, id, object))
<1> DEFINE put == Put(objects, id, object)
<1>1. /\ DOMAIN put = DOMAIN objects \cup {id} /\ put[id] = object
      /\ \A i \in DOMAIN objects \ {id} : put[i] = objects[i]
    BY DEF Put
<1> HIDE DEF put
<1>2. Loaded(row, put)
    <2>1. CASE row.id = id
        BY <1>1, <2>1 DEF Loaded
    <2>2. CASE row.id # id
        BY <1>1, <2>2 DEF Loaded
    <2> QED BY <2>1, <2>2
<1> QED BY <1>2 DEF put

\* What a save does to the collection it is for.
Saved(e, objects, next) ==
    \E object : /\ next = Put(objects, draft[e].id, object)
               /\ object.revision = draft[e].revision + 1
               /\ draft[e].edits \subseteq object.edits

LEMMA SaveEffect ==
    ASSUME NEW e \in Editor, Save(e)
    PROVE  /\ draft[e] # NULL /\ Current(e) /\ draft' = [draft EXCEPT ![e] = NULL]
           /\ \/ draft[e].kind = "groups" /\ Saved(e, groups, groups') /\ policies' = policies
              \/ draft[e].kind = "policies" /\ Saved(e, policies, policies') /\ groups' = groups
<1>1. /\ draft[e] # NULL /\ Current(e) /\ draft' = [draft EXCEPT ![e] = NULL]
    BY DEF Save, Close
<1>2. ASSUME NEW members,
             groups' = Put(groups, draft[e].id,
                           [revision |-> draft[e].revision + 1, members |-> members,
                            edits |-> Edits(e)])
      PROVE  Saved(e, groups, groups')
    BY <1>2 DEF Saved, Edits
<1>3. ASSUME NEW g, NEW enabled,
             policies' = Put(policies, draft[e].id,
                             [revision |-> draft[e].revision + 1, group_id |-> g,
                              enabled |-> enabled, edits |-> Edits(e)])
      PROVE  Saved(e, policies, policies')
    BY <1>3 DEF Saved, Edits
<1> QED BY <1>1, <1>2, <1>3 DEF Save

LEMMA SaveKeeps ==
    ASSUME DraftInv, NEW e \in Editor, NEW objects \in {groups, policies}, NEW next,
           draft[e] # NULL, draft[e].kind \in {"groups", "policies"}, Saved(e, objects, next),
           objects = Objects(draft[e].kind), Current(e)
    PROVE  /\ \A id \in DOMAIN next : next[id].revision \in Nat
           /\ \A row : row.revision \in Nat /\ Loaded(row, objects) => Loaded(row, next)
           /\ \A id \in DOMAIN objects : objects[id].edits \subseteq next[id].edits
<1>1. PICK object : /\ next = Put(objects, draft[e].id, object)
                    /\ object.revision = draft[e].revision + 1
                    /\ draft[e].edits \subseteq object.edits
    BY DEF Saved
<1> DEFINE id == draft[e].id
<1>2. /\ DOMAIN next = DOMAIN objects \cup {id} /\ next[id] = object
      /\ \A i \in DOMAIN objects \ {id} : next[i] = objects[i]
    BY <1>1 DEF Put
<1>3. /\ draft[e].revision \in Nat /\ object.revision \in Nat
      /\ \A i \in DOMAIN objects : objects[i].revision \in Nat
    BY <1>1 DEF DraftInv, Follows
<1>4. id \in DOMAIN objects =>
          draft[e].revision # 0 /\ objects[id].revision = draft[e].revision
    BY DEF Current
<1>5. id \in DOMAIN objects => objects[id].edits \subseteq object.edits
    <2>1. CASE id \in DOMAIN objects
        <3>1. Loaded(draft[e], objects)
            BY <1>4, <2>1 DEF DraftInv, Follows, Objects
        <3> QED BY <1>1, <1>4, <2>1, <3>1 DEF Loaded
    <2> QED BY <2>1
<1>6. ASSUME NEW row, row.revision \in Nat, Loaded(row, objects) PROVE Loaded(row, next)
    BY <1>1, <1>3, <1>4, <1>6, PutOutdates
<1> QED BY <1>2, <1>3, <1>5, <1>6

\* What every step means for the collections.
Grows(objects, next) ==
    \A id \in DOMAIN objects : objects[id].edits \subseteq next[id].edits

LEMMA Kept == DraftInv /\ [Next]_vars => DraftInv' /\ Grows(groups, groups') /\ Grows(policies, policies')
<1> SUFFICES ASSUME DraftInv, [Next]_vars
             PROVE  DraftInv' /\ Grows(groups, groups') /\ Grows(policies, policies')
    OBVIOUS
<1>1. ASSUME NEW e \in Editor, NEW kind \in {"groups", "policies"}, NEW id, Open(e, kind, id)
      PROVE  DraftInv' /\ UNCHANGED <<groups, policies>>
    BY <1>1, OpenKeeps DEF Open
<1>2. ASSUME NEW e \in Editor, Discard(e) PROVE DraftInv' /\ UNCHANGED <<groups, policies>>
    BY <1>2 DEF Discard, Close, DraftInv, Follows
<1>3. ASSUME NEW e \in Editor, Save(e)
      PROVE  DraftInv' /\ Grows(groups, groups') /\ Grows(policies, policies')
    <2>1. /\ draft[e] # NULL /\ Current(e) /\ draft' = [draft EXCEPT ![e] = NULL]
          /\ \/ draft[e].kind = "groups" /\ Saved(e, groups, groups') /\ policies' = policies
             \/ draft[e].kind = "policies" /\ Saved(e, policies, policies') /\ groups' = groups
        BY <1>3, SaveEffect
    <2>2. draft'[e] = NULL /\ \A f \in Editor \ {e} : draft'[f] = draft[f]
        BY <2>1 DEF DraftInv
    <2>3. CASE draft[e].kind = "groups" /\ Saved(e, groups, groups') /\ policies' = policies
        <3>1. groups = Objects(draft[e].kind)
            BY <2>3 DEF Objects
        <3>2. /\ \A id \in DOMAIN groups' : groups'[id].revision \in Nat
              /\ \A row : row.revision \in Nat /\ Loaded(row, groups) => Loaded(row, groups')
              /\ Grows(groups, groups')
            BY <2>1, <2>3, <3>1, SaveKeeps DEF Grows
        <3> QED BY <2>1, <2>2, <2>3, <3>2 DEF DraftInv, Follows, Grows
    <2>4. CASE draft[e].kind = "policies" /\ Saved(e, policies, policies') /\ groups' = groups
        <3>1. policies = Objects(draft[e].kind)
            BY <2>4 DEF Objects
        <3>2. /\ \A id \in DOMAIN policies' : policies'[id].revision \in Nat
              /\ \A row : row.revision \in Nat /\ Loaded(row, policies) => Loaded(row, policies')
              /\ Grows(policies, policies')
            BY <2>1, <2>4, <3>1, SaveKeeps DEF Grows
        <3> QED BY <2>1, <2>2, <2>4, <3>2 DEF DraftInv, Follows, Grows
    <2> QED BY <2>1, <2>3, <2>4
<1>4. CASE UNCHANGED <<groups, policies, draft>>
    BY <1>4 DEF DraftInv, Follows, Grows
<1>5. \/ UNCHANGED <<groups, policies, draft>>
      \/ \E e \in Editor : \/ \E kind \in {"groups", "policies"}, id \in GroupId \cup PolicyId :
                                Open(e, kind, id)
                          \/ Save(e) \/ Discard(e)
    BY DEF Next, vars, Revoke, StartPaging, NextPage
<1>6. UNCHANGED <<groups, policies>> => Grows(groups, groups') /\ Grows(policies, policies')
    BY DEF Grows
<1> QED BY <1>1, <1>2, <1>3, <1>4, <1>5, <1>6

\* What anyone saved into a group or policy stays part of everything that is
\* saved over it later: the expected revision of policy_store.save.
THEOREM EditsSurvive == Spec => NoLostEdit
<1>1. DraftInv /\ [Next]_vars =>
        [/\ \A g \in DOMAIN groups : groups[g].edits \subseteq groups'[g].edits
         /\ \A p \in DOMAIN policies : policies[p].edits \subseteq policies'[p].edits]_vars
    BY Kept DEF Grows
<1> QED BY <1>1, Initially, Kept, PTL DEF Spec, NoLostEdit

-----------------------------------------------------------------------------
(* The pages of the compliance collection.                                  *)

\* A finite set that is not empty has an element that no other one precedes.
LEMMA FirstExists ==
    ASSUME NEW S, IsFiniteSet(S), S # {}, NEW R,
           \A x \in S : <<x, x>> \notin R,
           \A x, y, z \in S : <<x, y>> \in R /\ <<y, z>> \in R => <<x, z>> \in R
    PROVE  \E x \in S : \A y \in S : <<y, x>> \notin R
<1> DEFINE Without == {U \in SUBSET S : U # {} /\ \A x \in U : \E y \in U : <<y, x>> \in R}
<1> SUFFICES ASSUME S \in Without PROVE FALSE
    OBVIOUS
<1>1. /\ IsWellFoundedOn(StrictSubsetOrdering(S), FiniteSubsetsOf(S))
      /\ Without \subseteq FiniteSubsetsOf(S)
    BY FS_StrictSubsetOrderingWellFounded, FS_FiniteSubsetsOfFinite
<1>2. PICK U \in Without : \A V \in Without : <<V, U>> \notin StrictSubsetOrdering(S)
    <2> HIDE DEF Without
    <2> QED BY <1>1, WFMin
<1>3. PICK x \in U : TRUE
    OBVIOUS
<1>4. U \ {x} \notin Without
    <2>1. <<U \ {x}, U>> \in StrictSubsetOrdering(S)
        BY <1>3 DEF StrictSubsetOrdering
    <2> QED BY <1>2, <2>1
<1>5. PICK z \in U : <<z, x>> \in R
    BY <1>3
<1>6. U \subseteq S /\ z \in U \ {x}
    BY <1>3, <1>5
<1>7. PICK m \in U \ {x} : \A y \in U \ {x} : <<y, m>> \notin R
    BY <1>4, <1>6
<1>8. <<x, m>> \in R
    BY <1>7
<1>9. <<z, m>> \in R
    BY <1>3, <1>5, <1>6, <1>7, <1>8
<1> QED BY <1>6, <1>7, <1>9

Identifiers == PolicyId \X Device

LEMMA Order ==
    /\ \A x \in Identifiers : ~Before(x, x)
    /\ \A x, y, z \in Identifiers : Before(x, y) /\ Before(y, z) => Before(x, z)
    /\ \A x, y \in Identifiers : x = y \/ Before(x, y) \/ Before(y, x)
<1>1. \A x \in Identifiers : x[1] \in Nat /\ x[2] \in Nat /\ x = <<x[1], x[2]>>
    <2>1. PolicyId \subseteq Nat /\ Device \subseteq Nat
        BY PolicyAssumption
    <2> SUFFICES ASSUME NEW x \in Identifiers
                 PROVE  x[1] \in Nat /\ x[2] \in Nat /\ x = <<x[1], x[2]>>
        OBVIOUS
    <2>2. PICK p \in PolicyId, d \in Device : x = <<p, d>>
        BY DEF Identifiers
    <2> QED BY <2>1, <2>2
<1>2. \A x \in Identifiers : ~Before(x, x)
    BY <1>1 DEF Before
<1>3. \A x, y, z \in Identifiers : Before(x, y) /\ Before(y, z) => Before(x, z)
    BY <1>1 DEF Before
<1>4. \A x, y \in Identifiers : x = y \/ Before(x, y) \/ Before(y, x)
    <2> SUFFICES ASSUME NEW x \in Identifiers, NEW y \in Identifiers,
                        ~Before(x, y), ~Before(y, x)
                 PROVE  x = y
        OBVIOUS
    <2>1. x[1] = y[1] /\ x[2] = y[2]
        BY <1>1 DEF Before
    <2> QED BY <1>1, <2>1
<1> QED BY <1>2, <1>3, <1>4

LEMMA LeastPair ==
    ASSUME NEW S \in SUBSET Identifiers, IsFiniteSet(S), S # {}
    PROVE  \E x \in S : \A y \in S : ~Before(y, x)
<1> DEFINE R == {r \in Identifiers \X Identifiers : Before(r[1], r[2])}
<1>1. \A x, y \in S : <<x, y>> \in R <=> Before(x, y)
    OBVIOUS
<1> HIDE DEF R
<1>2. /\ \A x \in S : <<x, x>> \notin R
      /\ \A x, y, z \in S : <<x, y>> \in R /\ <<y, z>> \in R => <<x, z>> \in R
    BY <1>1, Order
<1>3. \E x \in S : \A y \in S : <<y, x>> \notin R
    BY <1>2, FirstExists
<1> QED BY <1>1, <1>3

LEMMA GreatestPair ==
    ASSUME NEW S \in SUBSET Identifiers, IsFiniteSet(S), S # {}
    PROVE  \E x \in S : \A y \in S : ~Before(x, y)
<1> DEFINE R == {r \in Identifiers \X Identifiers : Before(r[2], r[1])}
<1>1. \A x, y \in S : <<x, y>> \in R <=> Before(y, x)
    OBVIOUS
<1> HIDE DEF R
<1>2. /\ \A x \in S : <<x, x>> \notin R
      /\ \A x, y, z \in S : <<x, y>> \in R /\ <<y, z>> \in R => <<x, z>> \in R
    BY <1>1, Order
<1>3. \E x \in S : \A y \in S : <<y, x>> \notin R
    BY <1>2, FirstExists
<1> QED BY <1>1, <1>3

\* What the reader has been given lies behind its cursor, and of what it was
\* promised everything that does.
PageInv ==
    /\ DOMAIN policies \subseteq PolicyId /\ IsFiniteSet(DOMAIN policies)
    /\ DOMAIN draft = Editor
    /\ \A e \in Editor : draft[e] # NULL /\ draft[e].kind = "policies" => draft[e].id \in PolicyId
    /\ paging \in BOOLEAN
    /\ given \subseteq Identifiers
    /\ cursor \in Identifiers \cup {NULL}
    /\ cursor = NULL => given = {}
    /\ ~paging => cursor = NULL
    /\ \A pair \in given : ~Ahead(pair)
    /\ promised \subseteq Pairs(policies, groups)
    /\ \A pair \in promised : ~Ahead(pair) => pair \in given

LEMMA PageInitially == Init => PageInv
BY FS_EmptySet DEF Init, PageInv, Ahead

LEMMA RestFinite ==
    ASSUME PageInv
    PROVE  /\ Pairs(policies, groups) \subseteq Identifiers
           /\ Rest \subseteq Identifiers /\ IsFiniteSet(Rest)
<1>1. Pairs(policies, groups) \subseteq (DOMAIN policies) \X Device
    BY DEF Pairs
<1>2. IsFiniteSet((DOMAIN policies) \X Device)
    BY FS_Product, PolicyAssumption DEF PageInv
<1>3. Rest \subseteq Pairs(policies, groups)
    BY DEF Rest
<1>4. IsFiniteSet(Rest)
    BY <1>1, <1>2, <1>3, FS_Subset
<1> QED BY <1>1, <1>3, <1>4 DEF PageInv, Identifiers

\* A page that is not the last one is not empty, and its cursor is its end.
LEMMA CursorEndsPage ==
    ASSUME PageInv, More
    PROVE  /\ NextCursor \in Selected
           /\ \A q \in Selected : ~Before(NextCursor, q)
<1>1. Rest # {} /\ Selected \subseteq Rest
    BY DEF More, Selected
<1>2. PICK m \in Rest : \A y \in Rest : ~Before(y, m)
    BY <1>1, RestFinite, LeastPair
<1>3. {q \in Rest : ~Before(m, q)} = {m}
    BY <1>2, RestFinite, Order
<1>4. m \in Selected
    <2>1. Cardinality({m}) = 1
        BY FS_Singleton
    <2>2. 1 <= LIMIT
        BY PolicyAssumption
    <2> QED BY <1>2, <1>3, <2>1, <2>2 DEF Selected
<1>5. \E pair \in Selected : \A q \in Selected : ~Before(pair, q)
    BY <1>1, <1>4, RestFinite, FS_Subset, GreatestPair
<1> QED BY <1>5 DEF NextCursor

\* A page leaves nothing out.
LEMMA PageIsSegment ==
    ASSUME PageInv, NEW p \in Rest, NEW q \in Selected, ~Before(q, p)
    PROVE  p \in Selected
<1> DEFINE Upto(x) == {y \in Rest : ~Before(x, y)}
<1>1. Selected \subseteq Rest /\ Cardinality(Upto(q)) <= LIMIT
    BY DEF Selected
<1>2. Upto(p) \subseteq Upto(q)
    BY <1>1, RestFinite, Order
<1>3. IsFiniteSet(Upto(q))
    BY RestFinite, FS_Subset
<1>4. /\ IsFiniteSet(Upto(p)) /\ Cardinality(Upto(p)) <= Cardinality(Upto(q))
    BY <1>2, <1>3, FS_Subset
<1>5. Cardinality(Upto(p)) \in Nat /\ Cardinality(Upto(q)) \in Nat
    BY <1>3, <1>4, FS_CardinalityType
<1> QED BY <1>1, <1>4, <1>5, PolicyAssumption DEF Selected

LEMMA NextPageKeeps == ASSUME PageInv, NextPage PROVE PageInv'
<1>1. CASE ~More
    <2>1. /\ ~paging' /\ paging' \in BOOLEAN
          /\ cursor' = NULL /\ given' = {} /\ promised' = {}
          /\ UNCHANGED <<groups, policies, draft>>
        BY <1>1 DEF NextPage, More
    <2> QED BY <2>1 DEF PageInv
<1>2. CASE More
    <2>1. /\ paging' = TRUE /\ cursor' = NextCursor /\ given' = given \cup Selected
          /\ UNCHANGED <<promised, groups, policies, draft>>
        BY <1>2 DEF NextPage, More
    <2>2. /\ NextCursor \in Selected /\ \A q \in Selected : ~Before(NextCursor, q)
          /\ Selected \subseteq Rest /\ Rest \subseteq Identifiers
          /\ Pairs(policies, groups) \subseteq Identifiers
        BY <1>2, CursorEndsPage, RestFinite DEF Selected
    <2>3. NextCursor \in Identifiers /\ Ahead(NextCursor) /\ NextCursor # NULL
        BY <2>2, PolicyAssumption DEF Rest, Identifiers
    <2>4. \A pair \in Identifiers : Ahead(pair)' <=> Before(NextCursor, pair)
        BY <2>1, <2>3 DEF Ahead
    <2>5. \A pair \in given' : ~Ahead(pair)'
        BY <2>1, <2>2, <2>3, <2>4, Order DEF PageInv, Ahead
    <2>6. ASSUME NEW pair \in promised', ~Ahead(pair)' PROVE pair \in given'
        <3>1. pair \in promised /\ pair \in Pairs(policies, groups) /\ pair \in Identifiers
            BY <2>1, <2>2, <2>6 DEF PageInv
        <3>2. CASE ~Ahead(pair)
            BY <2>1, <3>1, <3>2 DEF PageInv
        <3>3. CASE Ahead(pair)
            BY <2>1, <2>2, <2>4, <2>6, <3>1, <3>3, PageIsSegment DEF Rest
        <3> QED BY <3>2, <3>3
    <2> QED BY <2>1, <2>2, <2>3, <2>5, <2>6 DEF PageInv, Pairs
<1> QED BY <1>1, <1>2

\* A save withdraws what is no longer assigned from the promise.
LEMMA SaveKeepsPage ==
    ASSUME PageInv, NEW e \in Editor, Save(e)
    PROVE  PageInv'
<1>1. /\ draft[e] # NULL /\ draft' = [draft EXCEPT ![e] = NULL]
      /\ promised' = promised \cap Pairs(policies', groups')
      /\ UNCHANGED <<cursor, paging, given>>
    BY DEF Save, Close
<1>2. DOMAIN policies' \subseteq PolicyId /\ IsFiniteSet(DOMAIN policies')
    <2>1. CASE policies' = policies
        BY <2>1 DEF PageInv
    <2>2. CASE draft[e].kind = "policies" /\ Saved(e, policies, policies')
        <3>1. DOMAIN policies' = DOMAIN policies \cup {draft[e].id} /\ draft[e].id \in PolicyId
            BY <1>1, <2>2 DEF Saved, Put, PageInv
        <3> QED BY <3>1, FS_AddElement DEF PageInv
    <2> QED BY <2>1, <2>2, SaveEffect
<1>3. \A f \in Editor :
          draft'[f] # NULL /\ draft'[f].kind = "policies" => draft'[f].id \in PolicyId
    BY <1>1 DEF PageInv
<1> QED BY <1>1, <1>2, <1>3 DEF PageInv, Ahead

LEMMA PageKept == PageInv /\ [Next]_vars => PageInv'
<1> SUFFICES ASSUME PageInv, [Next]_vars PROVE PageInv'
    OBVIOUS
<1>1. ASSUME NEW e \in Editor, NEW kind \in {"groups", "policies"}, NEW id, Open(e, kind, id),
             kind = "policies" => id \in PolicyId
      PROVE  PageInv'
    <2>1. draft'[e].kind = kind /\ draft'[e].id = id /\ DOMAIN draft' = Editor
        BY <1>1 DEF Open, PageInv
    <2>2. /\ \A f \in Editor \ {e} : draft'[f] = draft[f]
          /\ UNCHANGED <<groups, policies, reader>>
        BY <1>1 DEF Open, PageInv
    <2> QED BY <1>1, <2>1, <2>2 DEF PageInv, Ahead, Pairs, reader
<1>2. ASSUME NEW e \in Editor, Save(e) PROVE PageInv'
    BY <1>2, SaveKeepsPage
<1>3. ASSUME NEW e \in Editor, Discard(e) PROVE PageInv'
    BY <1>3 DEF Discard, Close, PageInv, Ahead, Pairs, reader
<1>4. ASSUME NEW d \in Device, Revoke(d) PROVE PageInv'
    BY <1>4 DEF Revoke, PageInv, Ahead, Pairs, reader
<1>5. CASE StartPaging
    BY <1>5 DEF StartPaging, PageInv, Ahead, Pairs
<1>6. CASE NextPage
    BY <1>6, NextPageKeeps
<1>7. CASE UNCHANGED vars
    BY <1>7 DEF vars, PageInv, Ahead, Pairs, reader
<1> QED BY <1>1, <1>2, <1>3, <1>4, <1>5, <1>6, <1>7 DEF Next

\* The reader of the compliance collection is given no pair twice and at the end
\* everything that was assigned all the time, whatever is saved between the pages
\* and however large they are.
THEOREM PagesMissNothing == Spec => []PagedOnce
<1>1. PageInv => PagedOnce
    <2> SUFFICES ASSUME PageInv
                 PROVE  /\ given \cap Selected = {}
                        /\ ~More => promised \subseteq given \cup Selected
        BY DEF PagedOnce
    <2>1. Selected \subseteq Rest /\ \A pair \in Rest : Ahead(pair)
        BY DEF Selected, Rest
    <2>2. ~More => Rest = Selected
        BY DEF More
    <2>3. \A pair \in promised : Ahead(pair) => pair \in Rest
        BY DEF PageInv, Rest
    <2> QED BY <2>1, <2>2, <2>3 DEF PageInv
<1> QED BY <1>1, PageInitially, PageKept, PTL DEF Spec

-----------------------------------------------------------------------------
(* What a verdict is worth.                                                 *)

\* The package was found so at t or since.
Since(found, t) == lately[found] \in Nat /\ t <= lately[found]

\* What a report says of the package, unless it was cut or is an error, was the
\* case no longer than a query before it was stamped.
Backed(report) ==
    /\ report.found \in BOOLEAN /\ report.collected_at \in Int
    /\ report.status = "complete" /\ (report.found \/ ~report.truncated) =>
          Since(report.found, report.collected_at - offset - QUERY)

ReportInv ==
    /\ now \in Nat /\ offset \in Int
    /\ installed \in BOOLEAN
    /\ DOMAIN lately = BOOLEAN
    /\ \A b \in BOOLEAN : lately[b] \in Nat => lately[b] <= now
    /\ lately[installed] = now
    /\ query # NONE => /\ query.found \in BOOLEAN /\ query.began \in Nat
                       /\ query.began <= now /\ now <= query.began + QUERY
                       /\ Since(query.found, query.began)
    /\ packages # NONE => Backed(packages)
    /\ \A report \in heartbeats : Backed(report)
    /\ inventory # NONE => Backed(inventory)

LEMMA ReportInitially == EvaluationInit => ReportInv
BY EvaluationAssumption DEF EvaluationInit, ReportInv, Since

\* Time and the package manager only make later what was lately the case.
LEMMA LaterKeeps ==
    ASSUME ReportInv, now' \in Nat, now <= now',
           offset' = offset, installed' \in BOOLEAN,
           lately' = [lately EXCEPT ![installed'] = now'],
           query # NONE => now' <= query.began + QUERY,
           UNCHANGED <<query, packages, heartbeats, inventory>>
    PROVE  ReportInv'
<1>1. ASSUME NEW b \in BOOLEAN, NEW t \in Int, Since(b, t) PROVE Since(b, t)'
    BY <1>1 DEF ReportInv, Since
<1>2. ASSUME NEW report, Backed(report) PROVE Backed(report)'
    BY <1>1, <1>2, EvaluationAssumption DEF ReportInv, Backed
<1>3. /\ DOMAIN lately' = BOOLEAN /\ lately'[installed'] = now'
      /\ \A b \in BOOLEAN : lately'[b] \in Nat => lately'[b] <= now'
    BY DEF ReportInv
<1> QED BY <1>1, <1>2, <1>3 DEF ReportInv

\* A report is backed by the query it is made from.
LEMMA CollectKeeps == ASSUME ReportInv, Collect PROVE ReportInv'
<1>1. packages' # NONE => Backed(packages')
    <2>1. ASSUME NEW truncated \in BOOLEAN, NEW found \in {query.found, FALSE},
                 found = query.found \/ truncated,
                 packages' = [status |-> "complete", found |-> found,
                              truncated |-> truncated, collected_at |-> Stamp]
          PROVE  Backed(packages')
        <3>1. /\ query.found \in BOOLEAN /\ Since(query.found, query.began)
              /\ query.began \in Nat /\ now <= query.began + QUERY
              /\ now \in Nat /\ offset \in Int /\ Stamp = now + offset
            BY DEF Collect, ReportInv, Stamp
        <3>2. Since(query.found, Stamp - offset - QUERY)
            BY <3>1, EvaluationAssumption DEF Since
        <3>3. /\ packages'.found = found /\ packages'.truncated = truncated
              /\ packages'.collected_at = Stamp
            BY <2>1
        <3>4. found \in BOOLEAN /\ (found \/ ~truncated => found = query.found)
            BY <2>1, <3>1
        <3> QED BY <3>1, <3>2, <3>3, <3>4 DEF Backed
    <2>2. ASSUME packages' = [status |-> "error", found |-> FALSE,
                              truncated |-> FALSE, collected_at |-> Stamp]
          PROVE  Backed(packages')
        BY <2>2 DEF ReportInv, Backed, Stamp
    <2> QED BY <2>1, <2>2 DEF Collect
<1>2. UNCHANGED <<now, offset, installed, lately, heartbeats, inventory>> /\ query' = NONE
    BY DEF Collect, server
<1> QED BY <1>1, <1>2 DEF ReportInv, Backed, Since

LEMMA ReportKept == ReportInv /\ [EvaluationNext]_evaluation_vars => ReportInv'
<1> SUFFICES ASSUME ReportInv, [EvaluationNext]_evaluation_vars PROVE ReportInv'
    OBVIOUS
<1> USE DEF endpoint, server
<1>1. CASE Tick
    BY <1>1, LaterKeeps, EvaluationAssumption DEF Tick, ReportInv
<1>2. CASE Install
    BY <1>2, LaterKeeps DEF Install, ReportInv
<1>3. CASE Query
    BY <1>3, EvaluationAssumption DEF Query, ReportInv, Since, Backed
<1>4. CASE Collect
    BY <1>4, CollectKeeps
<1>5. CASE Send
    BY <1>5 DEF Send, ReportInv, Since, Backed
<1>6. CASE RevokeEndpoint
    BY <1>6 DEF RevokeEndpoint, ReportInv, Since, Backed
<1>7. ASSUME NEW report \in heartbeats, Heartbeat(report) PROVE ReportInv'
    BY <1>7 DEF Heartbeat, validate_report, ReportInv, Since, Backed
<1>8. ASSUME NEW report \in heartbeats, Lose(report) PROVE ReportInv'
    BY <1>8 DEF Lose, ReportInv, Since, Backed
<1>9. CASE UNCHANGED evaluation_vars
    BY <1>9 DEF evaluation_vars, ReportInv, Since, Backed
<1> QED BY <1>1, <1>2, <1>3, <1>4, <1>5, <1>6, <1>7, <1>8, <1>9 DEF EvaluationNext

\* A verdict of policies.evaluate is never older than the rule's age, the error
\* of the endpoint's clock and the time of one query.
THEOREM VerdictsAreRecent == Evaluation => []VerdictIsRecent
<1>1. ReportInv => VerdictIsRecent
    <2> SUFFICES ASSUME ReportInv, evaluate # "unknown"
                 PROVE  LET t == lately[evaluate = "compliant"] IN
                        t # NONE /\ now - t <= MAX_AGE + offset + QUERY
        BY DEF VerdictIsRecent
    <2>1. /\ Evidence /\ (inventory.found \/ Absent)
          /\ (evaluate = "compliant") = inventory.found
        BY DEF evaluate, ReportInv, Backed, Evidence
    <2>2. Since(inventory.found, inventory.collected_at - offset - QUERY)
        BY <2>1 DEF Evidence, Absent, ReportInv, Backed
    <2>3. now - inventory.collected_at <= MAX_AGE /\ inventory.collected_at \in Int
        BY <2>1 DEF Evidence, Fresh, ReportInv, Backed
    <2>4. lately[inventory.found] \in Nat
        BY <2>2 DEF Since
    <2>5. now - lately[inventory.found] <= MAX_AGE + offset + QUERY
        BY <2>2, <2>3, EvaluationAssumption DEF Since, ReportInv
    <2> QED BY <2>1, <2>4, <2>5, EvaluationAssumption
<1> QED BY <1>1, ReportInitially, ReportKept, PTL DEF Evaluation
=============================================================================
