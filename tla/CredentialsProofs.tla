-------------------------- MODULE CredentialsProofs --------------------------
(***************************************************************************)
(* Proofs about Credentials, for any credentials, threads, lifetimes and   *)
(* overlap: the three safety properties follow from one inductive          *)
(* invariant about what credentials came of which.                         *)
(***************************************************************************)
EXTENDS Credentials, TLAPS

\* The types of what the properties depend on.
Tables ==
    /\ now \in Nat
    /\ Issued \subseteq Id /\ withdrawn \subseteq Issued
    /\ \A c \in Issued : credentials[c] \in Credential

Live(c) == ~credentials[c].revoked

\* A credential is replaced for a limited time.  Its replacement came of it and
\* of what it came of itself, and expires with it.
Handover(c) ==
    /\ ancestors[c] \subseteq Issued \ {c}
    /\ \A a \in ancestors[c] : credentials[a].expires = credentials[c].expires
    /\ credentials[c].replacement_id = NULL <=> credentials[c].rotation_deadline = NULL
    /\ credentials[c].replacement_id # NULL =>
          /\ credentials[c].replacement_id \in Issued
          /\ ancestors[credentials[c].replacement_id] = ancestors[c] \cup {c}

Handovers == \A c \in Issued : Handover(c)

\* Of what a live credential came of, at most the one it replaces is live.
Succession ==
    \A c \in Issued : Live(c) =>
        \A a \in ancestors[c] : Live(a) => credentials[a].replacement_id = c

\* Of two live credentials with something in common, one came of the other.
OneLine ==
    \A c, d \in Issued :
        Live(c) /\ Live(d) /\ c # d /\ (ancestors[c] \cup {c}) \cap (ancestors[d] \cup {d}) # {}
        => c \in ancestors[d] \/ d \in ancestors[c]

\* What an administrator revoked is dead, with all that came of it.
WithdrawnDead ==
    \A c \in Issued : Live(c) => (ancestors[c] \cup {c}) \cap withdrawn = {}

Heir(h, r) ==
    /\ h \in Lineage(r) /\ Live(h) /\ credentials[h].rotation_deadline = NULL
    /\ credentials[h].expires = credentials[r].expires

\* Where an administrator revoked nothing, a live credential is not handed over.
Inherited == \A r \in Roots : Lineage(r) \cap withdrawn = {} => \E h \in Issued : Heir(h, r)

Inv == Tables /\ Handovers /\ Succession /\ OneLine /\ WithdrawnDead /\ Inherited

-----------------------------------------------------------------------------
(* What the operations do to the table, row by row.                         *)

Row(role, expires, revoked, replacement_id, rotation_deadline) ==
    [role |-> role, expires |-> expires, revoked |-> revoked,
     replacement_id |-> replacement_id, rotation_deadline |-> rotation_deadline]

Issue(c, role, expires) ==
    /\ c \in Id \ Issued /\ Issued' = Issued \cup {c}
    /\ credentials'[c] = Row(role, expires, FALSE, NULL, NULL)
    /\ ancestors'[c] = {}
    /\ \A d \in Issued : credentials'[d] = credentials[d] /\ ancestors'[d] = ancestors[d]
    /\ UNCHANGED <<withdrawn, now>>

Replace(c, new) ==
    /\ c \in Issued /\ Replaceable(c) /\ new \in Id \ Issued /\ Issued' = Issued \cup {new}
    /\ credentials'[new] = Row(credentials[c].role, credentials[c].expires, FALSE, NULL, NULL)
    /\ credentials'[c] = Row(credentials[c].role, credentials[c].expires, credentials[c].revoked,
                             new, Cutoff(c))
    /\ \A d \in Issued \ {c} : credentials'[d] = credentials[d]
    /\ ancestors'[new] = ancestors[c] \cup {c}
    /\ \A d \in Issued : ancestors'[d] = ancestors[d]
    /\ UNCHANGED <<withdrawn, now>>

\* The other operations change columns of rows that are there.
Revoked(d, revoked) ==
    credentials'[d] = Row(credentials[d].role, credentials[d].expires, revoked,
                          credentials[d].replacement_id, credentials[d].rotation_deadline)

Invalidate(c) ==
    /\ c \in Issued /\ Live(c) /\ Issued' = Issued
    /\ \A d \in Issued : Revoked(d, credentials[d].revoked \/ d \in Invalidated(c))
    /\ withdrawn' = withdrawn \cup {c}
    /\ UNCHANGED <<ancestors, now>>

Cancel(c, r) ==
    /\ c \in Issued /\ r \in Issued \ {c} /\ Live(c) /\ Issued' = Issued
    /\ r = credentials[c].replacement_id
    /\ credentials'[c] = Row(credentials[c].role, credentials[c].expires, credentials[c].revoked,
                             NULL, NULL)
    /\ Revoked(r, TRUE)
    /\ \A d \in Issued \ {c, r} : credentials'[d] = credentials[d]
    /\ UNCHANGED <<ancestors, withdrawn, now>>

HandOver(c) ==
    /\ c \in Issued /\ credentials[c].replacement_id # NULL /\ Issued' = Issued
    /\ Revoked(c, TRUE)
    /\ \A d \in Issued \ {c} : credentials'[d] = credentials[d]
    /\ UNCHANGED <<ancestors, withdrawn, now>>

LEMMA IssueEffect ==
    ASSUME Tables, NEW t \in Thread, NEW c \in Id, NEW role \in Role, NEW lifetime \in Lifetimes,
           issue(t, c, role, lifetime)
    PROVE  Issue(c, role, now + lifetime)
BY DEF issue, Insert, Issued, Tables, Issue, Row

LEMMA RotateEffect ==
    ASSUME Tables, NEW t \in Thread, NEW c \in Id, NEW new \in Id, rotate(t, c, new)
    PROVE  Replace(c, new)
<1>1. /\ c \in Issued /\ new \notin Issued /\ UNCHANGED <<withdrawn, now>> /\ Replaceable(c)
      /\ credentials' = Insert(new, credentials[c].role, credentials[c].expires,
                [d \in {c} |-> [credentials[c] EXCEPT !.replacement_id = new,
                                                      !.rotation_deadline = Cutoff(c)]])
      /\ ancestors' = [d \in Issued \cup {new} |->
                         IF d = new THEN ancestors[c] \cup {c} ELSE ancestors[d]]
    BY DEF rotate
<1>2. credentials'[c] = [credentials[c] EXCEPT !.replacement_id = new,
                                               !.rotation_deadline = Cutoff(c)]
    BY <1>1 DEF Insert
<1>3. credentials[c] \in Credential
    BY <1>1 DEF Tables
<1>4. credentials'[c] = Row(credentials[c].role, credentials[c].expires, credentials[c].revoked,
                            new, Cutoff(c))
    BY <1>2, <1>3 DEF Row, Credential
<1>5. /\ Issued' = Issued \cup {new}
      /\ credentials'[new] = Row(credentials[c].role, credentials[c].expires, FALSE, NULL, NULL)
      /\ \A d \in Issued \ {c} : credentials'[d] = credentials[d]
    BY <1>1 DEF Insert, Issued, Row
<1> QED BY <1>1, <1>4, <1>5 DEF Replace

LEMMA RevokeEffect ==
    ASSUME Tables, NEW t \in Thread, NEW c \in Id, revoke(t, c)
    PROVE  Invalidate(c)
<1>1. /\ c \in Issued /\ Live(c) /\ UNCHANGED <<ancestors, now>>
      /\ withdrawn' = withdrawn \cup {c}
      /\ credentials' = [d \in Issued |->
                           [credentials[d] EXCEPT !.revoked = @ \/ d \in Invalidated(c)]]
    BY DEF revoke, Live
<1>2. Issued' = Issued
    BY <1>1 DEF Issued
<1>3. ASSUME NEW d \in Issued PROVE Revoked(d, credentials[d].revoked \/ d \in Invalidated(c))
    <2>1. credentials[d] \in Credential
        BY DEF Tables
    <2>2. credentials'[d] = [credentials[d] EXCEPT
                              !.revoked = credentials[d].revoked \/ d \in Invalidated(c)]
        BY <1>1
    <2> QED BY <2>1, <2>2 DEF Revoked, Row, Credential
<1> QED BY <1>1, <1>2, <1>3 DEF Invalidate

LEMMA CancelEffect ==
    ASSUME Tables, Handovers, NEW t \in Thread, NEW c \in Id, cancel_rotation(t, c)
    PROVE  Cancel(c, credentials[c].replacement_id)
<1> DEFINE r == credentials[c].replacement_id
<1>1. /\ c \in Issued /\ Live(c) /\ r # NULL /\ UNCHANGED <<ancestors, withdrawn, now>>
      /\ credentials' = [credentials EXCEPT ![r].revoked = TRUE, ![c] = Restored(@)]
    BY DEF cancel_rotation, Pending, Live
<1>2. r \in Issued \ {c}
    <2>1. r \in Issued /\ c \in ancestors[r] /\ c \notin ancestors[c]
        BY <1>1 DEF Handover, Handovers
    <2> QED BY <2>1
<1>3. credentials' = [[credentials EXCEPT ![r] = [credentials[r] EXCEPT !.revoked = TRUE]]
                        EXCEPT ![c] = Restored(credentials[c])]
    BY <1>1, <1>2 DEF Issued
<1>4. credentials[c] \in Credential /\ credentials[r] \in Credential
    BY <1>1, <1>2 DEF Tables
<1>5. credentials'[c] = Row(credentials[c].role, credentials[c].expires, credentials[c].revoked,
                            NULL, NULL)
    <2>1. credentials'[c] = Restored(credentials[c])
        BY <1>1, <1>3 DEF Issued
    <2> QED BY <1>4, <2>1 DEF Restored, Row, Credential
<1>6. Revoked(r, TRUE)
    <2>1. credentials'[r] = [credentials[r] EXCEPT !.revoked = TRUE]
        BY <1>2, <1>3 DEF Issued
    <2> QED BY <1>4, <2>1 DEF Revoked, Row, Credential
<1>7. Issued' = Issued /\ \A d \in Issued \ {c, r} : credentials'[d] = credentials[d]
    BY <1>3 DEF Issued
<1> QED BY <1>1, <1>2, <1>5, <1>6, <1>7 DEF Cancel

LEMMA FinishEffect ==
    ASSUME Tables, NEW t \in Thread, NEW c \in Id, finish_rotation(t, c)
    PROVE  HandOver(c)
<1>1. /\ c \in Issued /\ credentials[c].replacement_id # NULL
      /\ UNCHANGED <<ancestors, withdrawn, now>>
      /\ credentials' = [credentials EXCEPT ![c].revoked = TRUE]
    BY DEF finish_rotation, Pending
<1>2. credentials[c] \in Credential /\ credentials'[c] = [credentials[c] EXCEPT !.revoked = TRUE]
    BY <1>1 DEF Issued, Tables
<1>3. Revoked(c, TRUE)
    BY <1>2 DEF Revoked, Row, Credential
<1> QED BY <1>1, <1>3 DEF Issued, HandOver

-----------------------------------------------------------------------------
(* Types.                                                                   *)

LEMMA IssueTyped ==
    ASSUME Tables, NEW c, NEW role \in Role, NEW expires \in Nat, Issue(c, role, expires)
    PROVE  Tables'
<1>1. Row(role, expires, FALSE, NULL, NULL) \in Credential
    BY DEF Row, Credential
<1> QED BY <1>1 DEF Issue, Tables

LEMMA RotateTyped ==
    ASSUME Tables, NEW c, NEW new, Replace(c, new)
    PROVE  Tables'
<1>1. c \in Issued /\ credentials[c] \in Credential /\ Cutoff(c) \in Nat
    BY CredentialsAssumption DEF Tables, Replace, Cutoff, Credential
<1>2. /\ Row(credentials[c].role, credentials[c].expires, FALSE, NULL, NULL) \in Credential
      /\ Row(credentials[c].role, credentials[c].expires, credentials[c].revoked, new, Cutoff(c))
            \in Credential
    BY <1>1 DEF Credential, Row, Replace
<1> QED BY <1>1, <1>2 DEF Tables, Replace

LEMMA RevokedTyped ==
    ASSUME Tables, NEW d \in Issued, NEW revoked \in BOOLEAN, Revoked(d, revoked)
    PROVE  /\ credentials'[d] \in Credential
           /\ credentials'[d].role = credentials[d].role
           /\ credentials'[d].expires = credentials[d].expires
           /\ credentials'[d].revoked = revoked
           /\ credentials'[d].replacement_id = credentials[d].replacement_id
           /\ credentials'[d].rotation_deadline = credentials[d].rotation_deadline
BY DEF Tables, Credential, Revoked, Row

LEMMA RevokeTyped == ASSUME Tables, NEW c, Invalidate(c) PROVE Tables'
<1>1. ASSUME NEW d \in Issued PROVE credentials'[d] \in Credential
    <2>1. (credentials[d].revoked \/ d \in Invalidated(c)) \in BOOLEAN
        OBVIOUS
    <2> QED BY <2>1, RevokedTyped DEF Invalidate
<1> QED BY <1>1 DEF Tables, Invalidate

LEMMA CancelTyped == ASSUME Tables, NEW c, NEW r, Cancel(c, r) PROVE Tables'
<1>1. credentials'[c] \in Credential
    BY DEF Tables, Cancel, Credential, Row
<1>2. credentials'[r] \in Credential
    BY RevokedTyped DEF Cancel
<1> QED BY <1>1, <1>2 DEF Tables, Cancel

LEMMA FinishTyped == ASSUME Tables, NEW c, HandOver(c) PROVE Tables'
BY RevokedTyped DEF Tables, HandOver

-----------------------------------------------------------------------------
(* One lemma per operation: the invariant outlives it.                      *)

LEMMA IssueKeeps ==
    ASSUME Inv, NEW c, NEW role \in Role, NEW expires \in Nat, Issue(c, role, expires)
    PROVE  Inv'
<1> USE CredentialsAssumption DEF Inv, Live, Heir
<1>1. /\ ~credentials'[c].revoked /\ credentials'[c].replacement_id = NULL
      /\ credentials'[c].rotation_deadline = NULL /\ credentials'[c].expires = expires
    BY DEF Issue, Row
<1>2. \A d \in Issued : /\ c \notin ancestors[d]
                        /\ credentials[d].replacement_id # NULL => credentials[d].replacement_id # c
    BY DEF Handover, Handovers, Issue
<1>3. Handovers'
    <2>1. Handover(c)'
        BY <1>1 DEF Handover, Issue
    <2>2. ASSUME NEW d \in Issued PROVE Handover(d)'
        <3>1. Handover(d)
            BY DEF Handovers
        <3> QED BY <3>1 DEF Handover, Issue
    <2> QED BY <2>1, <2>2 DEF Handovers, Issue
<1>4. Succession'
    BY <1>1, <1>2 DEF Handover, Handovers, Succession, Issue
<1>5. OneLine'
    BY <1>1, <1>2 DEF Handover, Handovers, OneLine, Issue
<1>6. WithdrawnDead'
    BY <1>1, <1>2 DEF WithdrawnDead, Issue, Tables
<1>7. Inherited'
    <2>1. ASSUME NEW r \in Roots', (Lineage(r) \cap withdrawn = {})'
          PROVE  (\E h \in Issued : Heir(h, r))'
        <3>1. CASE r = c
            BY <1>1, <3>1 DEF Issue, Lineage
        <3>2. CASE r # c
            <4>1. r \in Roots /\ Lineage(r)' = Lineage(r)
                BY <1>1, <1>2, <3>2 DEF Issue, Roots, Lineage
            <4>2. PICK h \in Issued : Heir(h, r)
                BY <2>1, <4>1 DEF Inherited, Issue
            <4> QED BY <4>1, <4>2 DEF Issue, Lineage, Roots
        <3> QED BY <3>1, <3>2
    <2> QED BY <2>1 DEF Inherited
<1> QED BY <1>3, <1>4, <1>5, <1>6, <1>7, IssueTyped

LEMMA RotateKeeps ==
    ASSUME Inv, NEW c, NEW new, Replace(c, new)
    PROVE  Inv'
<1> USE CredentialsAssumption DEF Inv, Live, Heir
<1>1. /\ ~credentials'[new].revoked /\ credentials'[new].replacement_id = NULL
      /\ credentials'[new].rotation_deadline = NULL
      /\ credentials'[new].expires = credentials[c].expires
      /\ credentials'[c].revoked = credentials[c].revoked /\ credentials'[c].replacement_id = new
      /\ credentials'[c].rotation_deadline = Cutoff(c)
      /\ credentials'[c].expires = credentials[c].expires
    BY DEF Replace, Row
<1>2. c \in Issued /\ new \notin Issued /\ c # new /\ Cutoff(c) # NULL /\ new # NULL
    <2>1. Cutoff(c) \in Nat
        BY DEF Replace, Cutoff, Tables, Credential
    <2> QED BY <2>1 DEF Replace
<1>3. \A d \in Issued : /\ new \notin ancestors[d]
                        /\ credentials[d].replacement_id # NULL => credentials[d].replacement_id # new
    BY <1>2 DEF Handover, Handovers
\* What replaces c has nothing live before it but c, and nothing is replacing c.
<1>4. /\ Live(c) /\ \A a \in ancestors[c] : ~Live(a)
      /\ \A d \in Issued : Live(d) => c \notin ancestors[d]
    BY <1>2 DEF Replace, Replaceable, Alive, Succession, Handover, Handovers, Tables
<1>5. Handovers'
    <2>1. Handover(c)
        BY <1>2 DEF Handovers
    <2>2. Handover(c)'
        <3>1. ancestors'[c] = ancestors[c] /\ ancestors'[new] = ancestors[c] \cup {c}
            BY <1>2 DEF Replace
        <3>2. \A a \in ancestors[c] : credentials'[a].expires = credentials[c].expires
            BY <2>1 DEF Handover, Replace
        <3> QED BY <1>1, <1>2, <2>1, <3>1, <3>2 DEF Handover, Replace
    <2>3. Handover(new)'
        <3>1. ancestors'[new] = ancestors[c] \cup {c} /\ ancestors[c] \subseteq Issued \ {c}
            BY <2>1 DEF Replace, Handover
        <3>2. \A a \in ancestors'[new] : credentials'[a].expires = credentials[c].expires
            BY <1>1, <2>1, <3>1 DEF Handover, Replace
        <3> QED BY <1>1, <1>2, <3>1, <3>2 DEF Handover, Replace
    <2>4. ASSUME NEW d \in Issued \ {c} PROVE Handover(d)'
        <3>1. Handover(d)
            BY DEF Handovers
        <3>2. \A e \in Issued : credentials'[e].expires = credentials[e].expires
            BY <1>1 DEF Replace
        <3> QED BY <3>1, <3>2 DEF Handover, Replace
    <2> QED BY <2>2, <2>3, <2>4 DEF Handovers, Replace
<1>6. Succession'
    BY <1>1, <1>2, <1>3, <1>4 DEF Handover, Handovers, Succession, Replace
<1>7. OneLine'
    BY <1>1, <1>2, <1>3, <1>4 DEF Handover, Handovers, OneLine, Replace
<1>8. WithdrawnDead'
    BY <1>1, <1>2, <1>4 DEF WithdrawnDead, Replace, Tables
<1>9. Inherited'
    <2>1. ASSUME NEW r \in Roots', (Lineage(r) \cap withdrawn = {})'
          PROVE  (\E h \in Issued : Heir(h, r))'
        <3>1. r \in Roots /\ r # new /\ Lineage(r) \subseteq Lineage(r)'
            BY <1>2 DEF Replace, Roots, Lineage
        <3>2. PICK h \in Issued : Heir(h, r)
            BY <2>1, <3>1 DEF Inherited, Replace
        <3>3. h \in Issued /\ r \in Issued /\ credentials'[r].expires = credentials[r].expires
            BY <1>1, <3>1 DEF Lineage, Roots, Replace
        <3>4. CASE h = c
            <4>1. new \in Lineage(r)'
                BY <1>2, <3>1, <3>2, <3>4 DEF Lineage, Replace
            <4> QED BY <1>1, <3>2, <3>3, <3>4, <4>1 DEF Replace
        <3>5. CASE h # c
            BY <3>1, <3>2, <3>3, <3>5 DEF Replace
        <3> QED BY <3>4, <3>5
    <2> QED BY <2>1 DEF Inherited
<1> QED BY <1>5, <1>6, <1>7, <1>8, <1>9, RotateTyped

LEMMA RevokeKeeps ==
    ASSUME Inv, NEW c, Invalidate(c)
    PROVE  Inv'
<1> USE DEF Inv, Heir
<1>1. /\ c \in Issued /\ Live(c) /\ Issued' = Issued
      /\ UNCHANGED ancestors /\ withdrawn' = withdrawn \cup {c}
    BY DEF Invalidate
<1>2. ASSUME NEW d \in Issued
      PROVE  /\ credentials'[d].expires = credentials[d].expires
             /\ credentials'[d].replacement_id = credentials[d].replacement_id
             /\ credentials'[d].rotation_deadline = credentials[d].rotation_deadline
             /\ Live(d)' <=> Live(d) /\ d # c /\ d # credentials[c].replacement_id
    <2>1. (credentials[d].revoked \/ d \in Invalidated(c)) \in BOOLEAN
        OBVIOUS
    <2>2. credentials'[d].revoked <=> credentials[d].revoked \/ d \in Invalidated(c)
        BY <2>1, RevokedTyped DEF Invalidate
    <2> QED BY <2>1, <2>2, RevokedTyped DEF Invalidate, Invalidated, Live
<1>3. Handovers'
    <2>1. ASSUME NEW d \in Issued PROVE Handover(d)'
        <3>1. Handover(d)
            BY DEF Handovers
        <3> QED BY <1>1, <1>2, <3>1 DEF Handover
    <2> QED BY <1>1, <2>1 DEF Handovers
<1>4. Succession'
    BY <1>1, <1>2 DEF Succession, Handovers, Handover
<1>5. OneLine'
    BY <1>1, <1>2 DEF OneLine
\* Whatever lives on came of c neither by itself nor as its replacement.
<1>6. WithdrawnDead'
    <2>1. ASSUME NEW d \in Issued, Live(d)' PROVE c \notin ancestors[d] \cup {d}
        BY <1>1, <1>2, <2>1 DEF Succession
    <2> QED BY <1>1, <1>2, <2>1 DEF WithdrawnDead
<1>7. Inherited'
    <2>1. ASSUME NEW r \in Roots', (Lineage(r) \cap withdrawn = {})'
          PROVE  (\E h \in Issued : Heir(h, r))'
        <3>1. r \in Roots /\ r \in Issued /\ Lineage(r)' = Lineage(r)
            BY <1>1 DEF Roots, Lineage
        <3>2. c \notin Lineage(r)
            BY <2>1, <1>1, <3>1
        <3>3. PICK h \in Issued : Heir(h, r)
            BY <2>1, <1>1, <3>1 DEF Inherited
        <3>4. h \in Issued /\ ancestors[r] = {} /\ r \in ancestors[h] \cup {h}
            BY <3>1, <3>3 DEF Lineage, Roots
        <3>5. h # credentials[c].replacement_id
            <4>1. ASSUME h = credentials[c].replacement_id PROVE FALSE
                <5>1. h # NULL
                    BY <3>4, CredentialsAssumption DEF Tables
                <5>2. ancestors[h] = ancestors[c] \cup {c}
                    BY <1>1, <4>1, <5>1 DEF Handovers, Handover
                <5> QED BY <1>1, <3>2, <3>4, <5>2 DEF Lineage
            <4> QED BY <4>1
        <3> QED BY <1>1, <1>2, <3>1, <3>2, <3>3, <3>4, <3>5
    <2> QED BY <2>1 DEF Inherited
<1> QED BY <1>3, <1>4, <1>5, <1>6, <1>7, RevokeTyped

LEMMA CancelKeeps ==
    ASSUME Inv, NEW c, NEW n, Cancel(c, n)
    PROVE  Inv'
<1> USE DEF Inv, Heir
<1>1. /\ c \in Issued /\ n \in Issued \ {c} /\ Live(c) /\ Issued' = Issued
      /\ n = credentials[c].replacement_id /\ n # NULL
      /\ UNCHANGED ancestors /\ UNCHANGED withdrawn
    BY CredentialsAssumption DEF Cancel, Tables
<1>2. /\ credentials'[c].expires = credentials[c].expires
      /\ credentials'[c].replacement_id = NULL /\ credentials'[c].rotation_deadline = NULL
      /\ Live(c)'
    BY <1>1 DEF Cancel, Row, Live
<1>3. /\ credentials'[n].expires = credentials[n].expires
      /\ credentials'[n].replacement_id = credentials[n].replacement_id
      /\ credentials'[n].rotation_deadline = credentials[n].rotation_deadline
      /\ ~Live(n)'
    BY <1>1, RevokedTyped DEF Cancel, Live
<1>4. \A d \in Issued \ {c, n} : credentials'[d] = credentials[d] /\ Live(d)' = Live(d)
    BY DEF Cancel, Live
<1>5. Handovers'
    <2>1. ASSUME NEW d \in Issued PROVE Handover(d)'
        <3>1. Handover(d)
            BY DEF Handovers
        <3>2. \A e \in Issued : credentials'[e].expires = credentials[e].expires
            BY <1>2, <1>3, <1>4
        <3> QED BY <1>1, <1>2, <1>3, <1>4, <3>1, <3>2 DEF Handover
    <2> QED BY <1>1, <2>1 DEF Handovers
<1>6. Succession'
    BY <1>1, <1>2, <1>3, <1>4 DEF Succession, Handovers, Handover
<1>7. OneLine'
    BY <1>1, <1>2, <1>3, <1>4 DEF OneLine
<1>8. WithdrawnDead'
    BY <1>1, <1>2, <1>3, <1>4 DEF WithdrawnDead
<1>9. Inherited'
    <2>1. ASSUME NEW r \in Roots', (Lineage(r) \cap withdrawn = {})'
          PROVE  (\E h \in Issued : Heir(h, r))'
        <3>1. r \in Roots /\ r \in Issued /\ Lineage(r)' = Lineage(r)
            BY <1>1 DEF Roots, Lineage
        <3>2. PICK h \in Issued : Heir(h, r)
            BY <2>1, <1>1, <3>1 DEF Inherited
        <3>3. h \in Issued /\ ancestors[r] = {} /\ r \in ancestors[h] \cup {h}
            BY <3>1, <3>2 DEF Lineage, Roots
        <3>4. credentials'[r].expires = credentials[r].expires
            BY <1>2, <1>3, <1>4, <3>1
        <3>5. CASE h = n
            <4>1. ancestors[n] = ancestors[c] \cup {c}
                BY <1>1 DEF Handovers, Handover
            <4>2. r \in ancestors[c] \cup {c}
                BY <3>3, <3>5, <4>1
            <4>3. credentials[c].expires = credentials[r].expires
                BY <1>1, <4>2 DEF Handovers, Handover
            <4>4. c \in Lineage(r)
                BY <1>1, <4>2 DEF Lineage
            <4> QED BY <1>1, <1>2, <3>1, <3>4, <4>3, <4>4
        <3>6. CASE h = c
            BY <1>1, <1>2, <3>1, <3>2, <3>4, <3>6
        <3>7. CASE h \notin {c, n}
            BY <1>1, <1>4, <3>1, <3>2, <3>3, <3>4, <3>7
        <3> QED BY <3>5, <3>6, <3>7
    <2> QED BY <2>1 DEF Inherited
<1> QED BY <1>5, <1>6, <1>7, <1>8, <1>9, CancelTyped

LEMMA FinishKeeps ==
    ASSUME Inv, NEW c, HandOver(c)
    PROVE  Inv'
<1> USE DEF Inv, Heir
<1>1. /\ c \in Issued /\ Issued' = Issued /\ UNCHANGED ancestors /\ UNCHANGED withdrawn
      /\ credentials[c].rotation_deadline # NULL
    BY DEF HandOver, Handovers, Handover
<1>2. /\ credentials'[c].expires = credentials[c].expires
      /\ credentials'[c].replacement_id = credentials[c].replacement_id
      /\ credentials'[c].rotation_deadline = credentials[c].rotation_deadline
      /\ ~Live(c)'
    BY <1>1, RevokedTyped DEF HandOver, Live
<1>3. \A d \in Issued \ {c} : credentials'[d] = credentials[d] /\ Live(d)' = Live(d)
    BY DEF HandOver, Live
<1>4. Handovers'
    <2>1. ASSUME NEW d \in Issued PROVE Handover(d)'
        <3>1. Handover(d) /\ \A e \in Issued : credentials'[e].expires = credentials[e].expires
            BY <1>2, <1>3 DEF Handovers
        <3> QED BY <1>1, <1>2, <1>3, <3>1 DEF Handover
    <2> QED BY <1>1, <2>1 DEF Handovers
<1>5. Succession'
    BY <1>1, <1>2, <1>3 DEF Succession, Handovers, Handover
<1>6. OneLine'
    BY <1>1, <1>2, <1>3 DEF OneLine
<1>7. WithdrawnDead'
    BY <1>1, <1>2, <1>3 DEF WithdrawnDead
<1>8. Inherited'
    <2>1. \A r \in Roots : Lineage(r)' = Lineage(r) /\ r \in Issued
        BY <1>1 DEF Roots, Lineage
    <2>2. \A h, r \in Issued : Lineage(r)' = Lineage(r) /\ Heir(h, r) => Heir(h, r)'
        BY <1>1, <1>2, <1>3
    <2>3. Roots' = Roots
        BY <1>1 DEF Roots
    <2> QED BY <1>1, <2>1, <2>2, <2>3 DEF Inherited
<1> QED BY <1>4, <1>5, <1>6, <1>7, <1>8, FinishTyped

-----------------------------------------------------------------------------
(* The theorems.                                                            *)

LEMMA Initially == Init => Inv
BY DEF Init, Inv, Tables, Handovers, Succession, OneLine, WithdrawnDead, Inherited, Roots, Issued

\* Only six kinds of steps are there, and two leave the tables alone.
LEMMA Steps ==
    Next => \/ /\ UNCHANGED <<credentials, ancestors, withdrawn>>
               /\ now' \in {now, now + 1}
            \/ \E t \in Thread, c \in Id :
                  \/ \E role \in Role, lifetime \in Lifetimes : issue(t, c, role, lifetime)
                  \/ \E new \in Id : rotate(t, c, new)
                  \/ revoke(t, c) \/ cancel_rotation(t, c) \/ finish_rotation(t, c)
BY DEF Next, Access, Refuse, Tick

LEMMA Kept == Inv /\ [Next]_vars => Inv'
<1> SUFFICES ASSUME Inv, [Next]_vars PROVE Inv'
    OBVIOUS
<1>1. Tables /\ Handovers
    BY DEF Inv
<1>2. CASE UNCHANGED <<credentials, ancestors, withdrawn>> /\ now' \in {now, now + 1}
    BY <1>2 DEF Inv, Tables, Handovers, Handover, Succession, OneLine, WithdrawnDead, Inherited, Heir,
                Roots, Lineage, Live, Issued
<1>3. ASSUME NEW t \in Thread, NEW c \in Id, NEW role \in Role, NEW lifetime \in Lifetimes,
             issue(t, c, role, lifetime)
      PROVE Inv'
    <2>1. now + lifetime \in Nat
        BY <1>1, CredentialsAssumption DEF Tables
    <2> QED BY <1>1, <1>3, <2>1, IssueEffect, IssueKeeps
<1>4. ASSUME NEW t \in Thread, NEW c \in Id, NEW new \in Id, rotate(t, c, new) PROVE Inv'
    BY <1>1, <1>4, RotateEffect, RotateKeeps
<1>5. ASSUME NEW t \in Thread, NEW c \in Id, revoke(t, c) PROVE Inv'
    BY <1>1, <1>5, RevokeEffect, RevokeKeeps
<1>6. ASSUME NEW t \in Thread, NEW c \in Id, cancel_rotation(t, c) PROVE Inv'
    BY <1>1, <1>6, CancelEffect, CancelKeeps
<1>7. ASSUME NEW t \in Thread, NEW c \in Id, finish_rotation(t, c) PROVE Inv'
    BY <1>1, <1>7, FinishEffect, FinishKeeps
<1>8. CASE UNCHANGED vars
    BY <1>2, <1>8 DEF vars
<1> QED BY <1>2, <1>3, <1>4, <1>5, <1>6, <1>7, <1>8, Steps

LEMMA Always == Spec => []Inv
BY Initially, Kept, PTL DEF Spec

\* Two tokens of a lineage are accepted only while the one replaces the other:
\* rotate, finish_rotation and cancel_rotation of identity.py in any order.
THEOREM HandoversArePairs == Spec => []HandoverPair
<1>1. Inv => HandoverPair
    <2> SUFFICES ASSUME Inv, NEW c \in Issued, NEW d \in Issued, c # d, Usable(c), Usable(d),
                        NEW r \in Roots, {c, d} \subseteq Lineage(r)
                 PROVE  \/ credentials[c].replacement_id = d /\ credentials[c].rotation_deadline # NULL
                        \/ credentials[d].replacement_id = c /\ credentials[d].rotation_deadline # NULL
        BY DEF HandoverPair
    <2>1. Live(c) /\ Live(d) /\ r \in (ancestors[c] \cup {c}) \cap (ancestors[d] \cup {d})
        BY DEF Usable, Alive, Live, Lineage
    <2>2. \/ c \in ancestors[d] /\ credentials[c].replacement_id = d
          \/ d \in ancestors[c] /\ credentials[d].replacement_id = c
        BY <2>1 DEF Inv, OneLine, Succession
    <2>3. c # NULL /\ d # NULL
        BY CredentialsAssumption DEF Inv, Tables
    <2> QED BY <2>2, <2>3 DEF Inv, Handovers, Handover
<1> QED BY <1>1, Always, PTL

\* Rotation by itself locks nobody out: while an administrator has revoked none
\* of a lineage, one of its tokens is accepted until the expiry it began with.
THEOREM RotationKeepsAccess == Spec => []NeverLockedOut
<1>1. Inv => NeverLockedOut
    BY DEF Inv, Inherited, Heir, NeverLockedOut, Usable, Alive, Live
<1> QED BY <1>1, Always, PTL

\* A revocation reaches everything that came of a credential: revoke of
\* identity.py, which revokes an unfinished handover as a whole.
THEOREM RevocationIsComplete == Spec => []RevocationReaches
<1>1. Inv => RevocationReaches
    BY DEF Inv, WithdrawnDead, RevocationReaches, Usable, Alive, Live
<1> QED BY <1>1, Always, PTL
=============================================================================
