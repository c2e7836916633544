----------------------------- MODULE PolicyStore -----------------------------
(***************************************************************************)
(* Groups and policies, policy_store.py: editors who load an object, think *)
(* and save it against the revision they loaded, and a reader who pages    *)
(* through the compliance of every enabled policy and member meanwhile.    *)
(*                                                                         *)
(* Of an object's revisions only the latest is ever read.  Objects and     *)
(* devices are numbered, for the order of their identifiers.  What a       *)
(* device is found to be is PolicyEvaluation's subject.                    *)
(***************************************************************************)
EXTENDS Integers, FiniteSets

CONSTANTS
    GroupId, PolicyId,  \* identifiers of the objects
    Device,             \* enrolled devices
    Editor,             \* administrators' sessions
    MAX_OBJECTS,        \* objects in a collection
    LIMIT,              \* pairs in a page
    MAX_SAVES,          \* bound on the edits
    NULL                \* none

ASSUME PolicyAssumption ==
    /\ GroupId \subseteq Nat /\ PolicyId \subseteq Nat /\ Device \subseteq Nat
    /\ {MAX_OBJECTS, LIMIT, MAX_SAVES} \subseteq Nat \ {0}
    /\ IsFiniteSet(Device)
    /\ NULL \notin Nat \cup (PolicyId \X Device)

VARIABLES
    groups,    \* the latest revision of each group
    policies,  \* and of each policy
    active,    \* devices that are not revoked
    draft,     \* by session: the object it edits, as it loaded it, or NULL
    saves,     \* history: the edits saved so far
    cursor,    \* the reader's cursor: a pair, or NULL for the first page
    paging,    \* the reader is between two pages
    given,     \* history: the pairs it has been given
    promised   \* history: the pairs that have been assigned since it began

reader == <<cursor, paging, given, promised>>
vars == <<groups, policies, active, draft, saves, reader>>

\* edits is history: the saves that a revision builds on, its own included.
Group == [revision : Nat, members : SUBSET Device, edits : SUBSET (1 .. MAX_SAVES)]
Policy == [revision : Nat, group_id : GroupId, enabled : BOOLEAN, edits : SUBSET (1 .. MAX_SAVES)]
Draft == [kind : {"groups", "policies"}, id : GroupId \cup PolicyId,
          revision : Nat, edits : SUBSET (1 .. MAX_SAVES)]

TypeOK ==
    /\ DOMAIN groups \subseteq GroupId /\ groups \in [DOMAIN groups -> Group]
    /\ DOMAIN policies \subseteq PolicyId /\ policies \in [DOMAIN policies -> Policy]
    /\ \A p \in DOMAIN policies : policies[p].group_id \in DOMAIN groups
    /\ \A objects \in {groups, policies} : Cardinality(DOMAIN objects) <= MAX_OBJECTS
    /\ active \subseteq Device
    /\ draft \in [Editor -> Draft \cup {NULL}]
    /\ saves \in 0 .. MAX_SAVES
    /\ cursor \in (PolicyId \X Device) \cup {NULL}
    /\ paging \in BOOLEAN
    /\ given \subseteq PolicyId \X Device /\ promised \subseteq PolicyId \X Device

Init ==
    /\ groups = [g \in {} |-> NULL]
    /\ policies = [p \in {} |-> NULL]
    /\ active = Device
    /\ draft = [e \in Editor |-> NULL]
    /\ saves = 0
    /\ cursor = NULL /\ paging = FALSE /\ given = {} /\ promised = {}

-----------------------------------------------------------------------------
(* save.                                                                    *)

Objects(kind) == IF kind = "groups" THEN groups ELSE policies

\* An object that is there is loaded for editing, or an empty one is begun,
\* which has no revision yet.
Open(e, kind, id) ==
    /\ draft[e] = NULL
    /\ draft' = [draft EXCEPT ![e] =
         IF id \in DOMAIN Objects(kind)
         THEN [kind |-> kind, id |-> id, revision |-> Objects(kind)[id].revision,
               edits |-> Objects(kind)[id].edits]
         ELSE [kind |-> kind, id |-> id, revision |-> 0, edits |-> {}]]
    /\ UNCHANGED <<groups, policies, active, saves, reader>>

Close(e) == draft' = [draft EXCEPT ![e] = NULL]

\* The collections are loaded again, which empties the form, or another object
\* is chosen, or the save was refused.
Discard(e) ==
    /\ draft[e] # NULL
    /\ Close(e)
    /\ UNCHANGED <<groups, policies, active, saves, reader>>

\* Mutant: it is enough that the object is there.
Current_Exists(e) ==
    draft[e].revision > 0 => draft[e].id \in DOMAIN Objects(draft[e].kind)

\* The object is at the revision that was loaded.  A new one gets an identifier
\* of its own.
Current(e) ==
    LET objects == Objects(draft[e].kind) IN
    IF draft[e].revision = 0 THEN draft[e].id \notin DOMAIN objects
    ELSE draft[e].id \in DOMAIN objects /\ objects[draft[e].id].revision = draft[e].revision

Room(e) == draft[e].revision = 0 => Cardinality(DOMAIN Objects(draft[e].kind)) < MAX_OBJECTS

Put(objects, id, object) ==
    [i \in DOMAIN objects \cup {id} |-> IF i = id THEN object ELSE objects[i]]

Edits(e) == draft[e].edits \cup {saves'}

\* A policy and a member of its group.
Pairs(ps, gs) ==
    {pair \in (DOMAIN ps) \X Device :
        /\ ps[pair[1]].enabled /\ ps[pair[1]].group_id \in DOMAIN gs
        /\ pair[2] \in gs[ps[pair[1]].group_id].members}

Assignable == DOMAIN groups

Save(e) ==
    /\ draft[e] # NULL
    /\ saves < MAX_SAVES
    /\ Current(e) /\ Room(e)
    /\ saves' = saves + 1
    /\ \/ /\ draft[e].kind = "groups"
          /\ \E members \in SUBSET active :
                groups' = Put(groups, draft[e].id,
                              [revision |-> draft[e].revision + 1, members |-> members,
                               edits |-> Edits(e)])
          /\ UNCHANGED policies
       \/ /\ draft[e].kind = "policies"
          /\ \E g \in Assignable, enabled \in BOOLEAN :
                policies' = Put(policies, draft[e].id,
                                [revision |-> draft[e].revision + 1, group_id |-> g,
                                 enabled |-> enabled, edits |-> Edits(e)])
          /\ UNCHANGED groups
    /\ promised' = promised \cap Pairs(policies', groups')
    /\ Close(e)
    /\ UNCHANGED <<active, cursor, paging, given>>

\* Membership outlives a device's revocation.
Revoke(d) ==
    /\ d \in active
    /\ active' = active \ {d}
    /\ UNCHANGED <<groups, policies, draft, saves, reader>>

-----------------------------------------------------------------------------
(* workspace, the compliance collection.                                    *)

Before(x, y) == x[1] < y[1] \/ (x[1] = y[1] /\ x[2] < y[2])

\* Mutant: a policy whose members did not fit is done with.
Ahead_NextPolicy(pair) == cursor = NULL \/ pair[1] > cursor[1]

Ahead(pair) == cursor = NULL \/ Before(cursor, pair)

Rest == {pair \in Pairs(policies, groups) : Ahead(pair)}

Selected == {pair \in Rest : Cardinality({q \in Rest : ~Before(pair, q)}) <= LIMIT}

More == Rest # Selected

NextCursor == CHOOSE pair \in Selected : \A q \in Selected : ~Before(pair, q)

StartPaging ==
    /\ ~paging
    /\ paging' = TRUE
    /\ promised' = Pairs(policies, groups)
    /\ UNCHANGED <<groups, policies, active, draft, saves, cursor, given>>

NextPage ==
    /\ paging
    /\ paging' = More
    /\ IF More
       THEN cursor' = NextCursor /\ given' = given \cup Selected /\ UNCHANGED promised
       ELSE cursor' = NULL /\ given' = {} /\ promised' = {}
    /\ UNCHANGED <<groups, policies, active, draft, saves>>

Next ==
    \/ \E e \in Editor :
          \/ \E g \in GroupId : Open(e, "groups", g)
          \/ \E p \in PolicyId : Open(e, "policies", p)
          \/ Save(e) \/ Discard(e)
    \/ \E d \in Device : Revoke(d)
    \/ StartPaging \/ NextPage

Spec == Init /\ [][Next]_vars

-----------------------------------------------------------------------------
(* Safety.                                                                  *)

\* No edit is lost: what was saved into an object stays part of what every later
\* editor saves over it.
NoLostEdit ==
    [][/\ \A g \in DOMAIN groups : groups[g].edits \subseteq groups'[g].edits
       /\ \A p \in DOMAIN policies : policies[p].edits \subseteq policies'[p].edits]_vars

\* Whatever is saved between two pages, the reader is given no pair twice, and
\* at the end every pair that was assigned all the time.
PagedOnce ==
    paging => /\ given \cap Selected = {}
              /\ ~More => promised \subseteq given \cup Selected
=============================================================================
