----------------------------- MODULE PortalStart -----------------------------
(***************************************************************************)
(* The start of the control plane: create_app of wsgi.py with Store and    *)
(* migrations.migrate, by several processes on one data directory, as when *)
(* a worker is replaced while the old one still answers or a container is  *)
(* restarted.  A process may die between any two steps; the database then  *)
(* rolls its transaction back, the files stay as they are.                 *)
(*                                                                         *)
(* A release is the schema version it brings, a rung of the ladder adds    *)
(* one part and stamps its number.  Tables of TABLES are the first rung.   *)
(* The token is made here, not given by PROTEC_ADMIN_TOKEN; the signing    *)
(* key is configured.                                                      *)
(***************************************************************************)
EXTENDS Integers

CONSTANTS
    Portal,    \* processes
    Release,   \* schema versions of the releases that are run
    Token,     \* tokens that may be drawn
    Key,       \* signing keys
    EMPTY,     \* a token file with nothing in it
    NULL       \* none

ASSUME PortalAssumption ==
    /\ Release \subseteq Nat \ {0}
    /\ EMPTY \notin Token /\ NULL \notin Token \cup Key \cup Portal /\ EMPTY # NULL

VARIABLES
    token_file,  \* admin-token: absent (NULL), EMPTY, or a token
    key_file,    \* the signing key document, or NULL
    version,     \* PRAGMA user_version
    parts,       \* rungs whose tables and columns exist
    writer,      \* the process inside its write transaction, or NULL
    image,       \* what a rollback restores
    step,        \* where each process stands
    release,     \* the release each process runs
    token,       \* the administrator token it accepts, or NULL
    signer,      \* the key it signs with, or NULL
    current      \* the rung it has reached

database == <<version, parts, writer, image>>
process == <<step, release, token, signer, current>>
portal_vars == <<token_file, key_file, database, process>>

Step == {"idle", "starting", "writing", "reading", "loading", "opening", "upgrading", "altered", "serving"}

TypeOK ==
    /\ token_file \in Token \cup {NULL, EMPTY}
    /\ key_file \in Key \cup {NULL}
    /\ version \in Nat /\ parts \subseteq Nat
    /\ writer \in Portal \cup {NULL}
    /\ image.version \in Nat /\ image.parts \subseteq Nat
    /\ step \in [Portal -> Step]
    /\ release \in [Portal -> Release \cup {0}]
    /\ token \in [Portal -> Token \cup {NULL, EMPTY}]
    /\ signer \in [Portal -> Key \cup {NULL}]
    /\ current \in [Portal -> Nat]

Blank == [version |-> 0, parts |-> {}]

\* A new data directory with a signing key of its own.  A database with tables but
\* without a version, from before there were versions, is left out.
PortalInit ==
    /\ token_file = NULL
    /\ key_file \in Key
    /\ version = 0 /\ parts = {}
    /\ writer = NULL /\ image = Blank
    /\ step = [p \in Portal |-> "idle"]
    /\ release = [p \in Portal |-> 0]
    /\ token = [p \in Portal |-> NULL]
    /\ signer = [p \in Portal |-> NULL]
    /\ current = [p \in Portal |-> 0]

Goto(p, s) == step' = [step EXCEPT ![p] = s]

Start(p) ==
    /\ step[p] = "idle"
    /\ \E r \in Release : release' = [release EXCEPT ![p] = r]
    /\ Goto(p, "starting")
    /\ UNCHANGED <<token_file, key_file, database, token, signer, current>>

\* The process ends: a check that fails, or a kill.
End(p) ==
    /\ step[p] # "idle"
    /\ Goto(p, "idle")
    /\ release' = [release EXCEPT ![p] = 0]
    /\ token' = [token EXCEPT ![p] = NULL]
    /\ signer' = [signer EXCEPT ![p] = NULL]
    /\ current' = [current EXCEPT ![p] = 0]
    /\ IF writer = p
       THEN version' = image.version /\ parts' = image.parts /\ writer' = NULL /\ image' = Blank
       ELSE UNCHANGED database
    /\ UNCHANGED <<token_file, key_file>>

-----------------------------------------------------------------------------
(* The administrator token.                                                 *)

\* Mutant: the file is opened for writing whether or not it is there.
Creates_Always == TRUE

\* open('x') makes the file, or finds it.
Creates == token_file = NULL

Create(p) ==
    /\ step[p] = "starting"
    /\ IF Creates
       THEN token_file' = EMPTY /\ Goto(p, "writing")
       ELSE UNCHANGED token_file /\ Goto(p, "reading")
    /\ UNCHANGED <<key_file, database, release, token, signer, current>>

Write(p) ==
    /\ step[p] = "writing"
    /\ token_file' \in Token
    /\ Goto(p, "reading")
    /\ UNCHANGED <<key_file, database, release, token, signer, current>>

\* Only a whole token is taken; anything else ends the start.
Read(p) ==
    /\ step[p] = "reading"
    /\ token_file \in Token
    /\ token' = [token EXCEPT ![p] = token_file]
    /\ Goto(p, "loading")
    /\ UNCHANGED <<token_file, key_file, database, release, signer, current>>

-----------------------------------------------------------------------------
(* The signing key, once.                                                   *)

LoadSigner(p) ==
    /\ step[p] = "loading"
    /\ key_file # NULL
    /\ signer' = [signer EXCEPT ![p] = key_file]
    /\ Goto(p, "opening")
    /\ UNCHANGED <<token_file, key_file, database, release, token, current>>

-----------------------------------------------------------------------------
(* migrate.                                                                 *)

\* Mutant: statements commit one by one, as they do without BEGIN.
Immediate_Not == TRUE

\* BEGIN IMMEDIATE waits for the writer.
Immediate == writer = NULL

\* The version is read inside the transaction; the parts of every rung up to
\* it are there.
Open(p) ==
    /\ step[p] = "opening"
    /\ Immediate
    /\ version <= release[p]
    /\ 1..version \subseteq parts
    /\ writer' = p
    /\ image' = [version |-> version, parts |-> parts]
    /\ current' = [current EXCEPT ![p] = version]
    /\ Goto(p, "upgrading")
    /\ UNCHANGED <<token_file, key_file, version, parts, release, token, signer>>

Pending(p) == step[p] = "upgrading" /\ current[p] < release[p]

Alter(p) ==
    /\ Pending(p)
    /\ parts' = parts \cup {current[p] + 1}
    /\ Goto(p, "altered")
    /\ UNCHANGED <<token_file, key_file, version, writer, image, release, token, signer, current>>

Stamp(p) ==
    /\ step[p] = "altered"
    /\ version' = current[p] + 1
    /\ current' = [current EXCEPT ![p] = @ + 1]
    /\ Goto(p, "upgrading")
    /\ UNCHANGED <<token_file, key_file, parts, writer, image, release, token, signer>>

\* The schema is validated again, the transaction commits, and the process
\* serves.
Serve(p) ==
    /\ step[p] = "upgrading" /\ current[p] = release[p]
    /\ 1..version \subseteq parts
    /\ writer' = NULL
    /\ image' = Blank
    /\ Goto(p, "serving")
    /\ UNCHANGED <<token_file, key_file, version, parts, release, token, signer, current>>

PortalStep(p) ==
    \/ Start(p) \/ End(p)
    \/ Create(p) \/ Write(p) \/ Read(p)
    \/ LoadSigner(p)
    \/ Open(p) \/ Alter(p) \/ Stamp(p) \/ Serve(p)

-----------------------------------------------------------------------------
(* Safety.                                                                  *)

Serving == {p \in Portal : step[p] = "serving"}

\* Every process that serves accepts the token that the file holds, whatever
\* died while it was made and however many processes started together: the
\* identity of the administrator is made once and survives every restart.
OneAdministrator ==
    \A p \in Serving : token[p] \in Token /\ token[p] = token_file

\* A rung never meets tables or columns that exist already, which would end
\* this start and every later one; and a process that serves has the whole
\* schema of its release, whoever upgrades or rolls back beside it.
LadderHolds ==
    /\ \A p \in Portal : Pending(p) => current[p] + 1 \notin parts
    /\ \A p \in Serving : 1..release[p] \subseteq parts
=============================================================================
