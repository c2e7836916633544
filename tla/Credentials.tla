----------------------------- MODULE Credentials -----------------------------
(***************************************************************************)
(* Service credentials: identity.py, and the way do_POST of server.py uses *)
(* it.  A request is authenticated and authorised in one transaction and   *)
(* acts in another, on one of the server's threads, so that anything may   *)
(* happen to its credential in between.                                    *)
(*                                                                         *)
(* A credential is rotated into a replacement with the same authority and  *)
(* expiry.  For a while both work; the handover is then finished, is       *)
(* cancelled, or is cut off by its deadline.                               *)
(***************************************************************************)
EXTENDS Integers, FiniteSets

CONSTANTS
    Id,         \* identifiers of credentials
    Thread,     \* threads that serve requests
    LOCAL_ADMINISTRATOR,  \* the bootstrap principal, whose token never expires
    Lifetimes,  \* lifetimes an administrator asks for
    OVERLAP,    \* 900 seconds of handover
    LAST,       \* bound on the clock
    NULL        \* SQL NULL, and no principal

ASSUME CredentialsAssumption ==
    /\ Lifetimes \subseteq Nat \ {0}
    /\ OVERLAP \in Nat \ {0}
    /\ LAST \in Nat
    /\ LOCAL_ADMINISTRATOR \notin Id
    /\ NULL \notin Id \cup Nat \cup {LOCAL_ADMINISTRATOR}

VARIABLES
    now,          \* time.time()
    credentials,  \* the credentials table, by identifier
    principal,    \* by thread: who its request was authorised as, or NULL
    ancestors,    \* history: the credentials that each one replaced, in turn
    withdrawn     \* history: the credentials that an administrator revoked

vars == <<now, credentials, principal, ancestors, withdrawn>>

\* An operator has no more to do with credentials than a viewer.
Role == {"viewer", "administrator"}

Issued == DOMAIN credentials

Credential == [role : Role, expires : Nat, revoked : BOOLEAN,
               replacement_id : Id \cup {NULL}, rotation_deadline : Nat \cup {NULL}]

\* A handover ends before the credential would.
TypeOK ==
    /\ now \in Nat
    /\ Issued \subseteq Id
    /\ credentials \in [Issued -> Credential]
    /\ principal \in [Thread -> Id \cup {LOCAL_ADMINISTRATOR, NULL}]
    /\ ancestors \in [Issued -> SUBSET Id]
    /\ withdrawn \subseteq Issued
    /\ \A c \in Issued :
          credentials[c].rotation_deadline # NULL =>
              credentials[c].rotation_deadline <= credentials[c].expires

Init ==
    /\ now = 0
    /\ credentials = [c \in {} |-> NULL]
    /\ principal = [t \in Thread |-> NULL]
    /\ ancestors = [c \in {} |-> {}]
    /\ withdrawn = {}

Alive(c) == ~credentials[c].revoked /\ now < credentials[c].expires

\* The credential's token is accepted.
Usable(c) ==
    /\ Alive(c)
    /\ credentials[c].rotation_deadline # NULL => now < credentials[c].rotation_deadline

-----------------------------------------------------------------------------
(* access: authenticate, then require.                                      *)

Access(t) ==
    /\ principal[t] = NULL
    /\ \/ principal' = [principal EXCEPT ![t] = LOCAL_ADMINISTRATOR]
       \/ \E c \in Issued :
             /\ Usable(c)
             /\ credentials[c].role = "administrator"
             /\ principal' = [principal EXCEPT ![t] = c]
    /\ UNCHANGED <<now, credentials, ancestors, withdrawn>>

\* The operation answered, or was refused.
Answer(t) == principal' = [principal EXCEPT ![t] = NULL]

Refuse(t) ==
    /\ principal[t] # NULL
    /\ Answer(t)
    /\ UNCHANGED <<now, credentials, ancestors, withdrawn>>

-----------------------------------------------------------------------------
(* The operations, each one transaction of an authorised request.           *)

Insert(c, role, expires, replaced) ==
    [d \in Issued \cup {c} |->
        IF d = c THEN [role |-> role, expires |-> expires, revoked |-> FALSE,
                       replacement_id |-> NULL, rotation_deadline |-> NULL]
        ELSE IF d \in DOMAIN replaced THEN replaced[d] ELSE credentials[d]]

issue(t, c, role, lifetime) ==
    /\ principal[t] # NULL
    /\ c \notin Issued
    /\ credentials' = Insert(c, role, now + lifetime, <<>>)
    /\ ancestors' = [d \in Issued \cup {c} |-> IF d = c THEN {} ELSE ancestors[d]]
    /\ Answer(t)
    /\ UNCHANGED <<now, withdrawn>>

\* Mutant: the credential itself is revoked and no other.
Invalidated_Alone(c) == {c}

\* An unfinished handover is revoked as a whole.
Invalidated(c) ==
    {c} \cup {d \in Issued : d = credentials[c].replacement_id /\ ~credentials[d].revoked}

revoke(t, c) ==
    /\ principal[t] # NULL
    /\ c \in Issued
    /\ ~credentials[c].revoked
    /\ credentials' = [d \in Issued |->
                         [credentials[d] EXCEPT !.revoked = @ \/ d \in Invalidated(c)]]
    /\ withdrawn' = withdrawn \cup {c}
    /\ Answer(t)
    /\ UNCHANGED <<now, ancestors>>

\* Mutant: a replacement may be replaced before its own handover is over.
Replaceable_Chained(c) == Alive(c) /\ credentials[c].replacement_id = NULL

Replaceable(c) ==
    /\ Alive(c)
    /\ credentials[c].replacement_id = NULL
    /\ \A d \in Issued : credentials[d].replacement_id = c => credentials[d].revoked

Cutoff(c) == IF now + OVERLAP < credentials[c].expires THEN now + OVERLAP ELSE credentials[c].expires

rotate(t, c, new) ==
    /\ principal[t] # NULL
    /\ c \in Issued /\ new \notin Issued
    /\ Replaceable(c)
    /\ credentials' =
         Insert(new, credentials[c].role, credentials[c].expires,
                [d \in {c} |-> [credentials[c] EXCEPT !.replacement_id = new,
                                                      !.rotation_deadline = Cutoff(c)]])
    /\ ancestors' = [d \in Issued \cup {new} |->
                       IF d = new THEN ancestors[c] \cup {c} ELSE ancestors[d]]
    /\ Answer(t)
    /\ UNCHANGED <<now, withdrawn>>

Pending(c) == ~credentials[c].revoked /\ credentials[c].replacement_id # NULL

\* Mutant: a cancelled handover still ends at its deadline.
Restored_Partly(row) == [row EXCEPT !.replacement_id = NULL]

Restored(row) == [row EXCEPT !.replacement_id = NULL, !.rotation_deadline = NULL]

Cancellable(c) == now < credentials[c].rotation_deadline /\ now < credentials[c].expires

cancel_rotation(t, c) ==
    /\ principal[t] # NULL
    /\ c \in Issued
    /\ Pending(c)
    /\ Cancellable(c)
    /\ credentials' = [credentials EXCEPT
                         ![credentials[c].replacement_id].revoked = TRUE,
                         ![c] = Restored(@)]
    /\ Answer(t)
    /\ UNCHANGED <<now, ancestors, withdrawn>>

finish_rotation(t, c) ==
    /\ principal[t] # NULL
    /\ c \in Issued
    /\ Pending(c)
    /\ Alive(credentials[c].replacement_id)
    /\ credentials' = [credentials EXCEPT ![c].revoked = TRUE]
    /\ Answer(t)
    /\ UNCHANGED <<now, ancestors, withdrawn>>

Tick ==
    /\ now < LAST
    /\ now' = now + 1
    /\ UNCHANGED <<credentials, principal, ancestors, withdrawn>>

Next ==
    \/ Tick
    \/ \E t \in Thread :
          \/ Access(t)
          \/ Refuse(t)
          \/ \E c \in Id, role \in Role, lifetime \in Lifetimes : issue(t, c, role, lifetime)
          \/ \E c \in Id : revoke(t, c) \/ cancel_rotation(t, c) \/ finish_rotation(t, c)
          \/ \E c, new \in Id : rotate(t, c, new)

Spec == Init /\ [][Next]_vars

-----------------------------------------------------------------------------
(* Safety.                                                                  *)

\* The credentials that came of one that was issued.
Lineage(root) == {root} \cup {c \in Issued : root \in ancestors[c]}

Roots == {c \in Issued : ancestors[c] = {}}

\* However a credential is rotated, cancelled and rotated again, never more
\* than two tokens of its lineage are accepted, and two only until the
\* deadline of the handover between them.
HandoverPair ==
    \A c, d \in Issued :
        c # d /\ Usable(c) /\ Usable(d) /\ (\E r \in Roots : {c, d} \subseteq Lineage(r))
        => \/ credentials[c].replacement_id = d /\ credentials[c].rotation_deadline # NULL
           \/ credentials[d].replacement_id = c /\ credentials[d].rotation_deadline # NULL

\* Rotation alone never locks its owner out: while no credential of a lineage
\* has been revoked by an administrator, one of them is accepted until the
\* expiry that the first was issued with.
NeverLockedOut ==
    \A r \in Roots :
        Lineage(r) \cap withdrawn = {} /\ now < credentials[r].expires =>
            \E c \in Lineage(r) : Usable(c)

\* Revoking a credential reaches everything that came of it: no token is
\* accepted that descends from a revoked one.
RevocationReaches ==
    \A c \in Issued : Usable(c) => (ancestors[c] \cup {c}) \cap withdrawn = {}
=============================================================================
