------------------------------ MODULE MCEndpoint ------------------------------
(* Constants for model-checking what runs at an endpoint beside the cycle   *)
(* of the agent: Enrollment, LinuxInstaller and AptPreview.  No step of one *)
(* reads the state of another; so in every behaviour one of them moves and  *)
(* the others stand where they began.                                       *)
EXTENDS MCEnrollment, MCLinuxInstaller, MCAptPreview

EndpointSymmetry == Symmetry \cup SameSchema

EndpointInit == Init /\ InstallerInit /\ PreviewInit

\* Any beginning of previews serves while another component moves.
OnePreview ==
    /\ PreviewInit
    /\ host = CHOOSE h \in Hosts : TRUE
    /\ sources = CHOOSE s \in Sources : TRUE

OneMoves ==
    \/ InstallerInit /\ OnePreview /\ Next /\ UNCHANGED <<installer_vars, preview_vars>>
    \/ Init /\ OnePreview /\ InstallerNext /\ UNCHANGED <<vars, preview_vars>>
    \/ Init /\ InstallerInit /\ PreviewNext /\ UNCHANGED <<vars, installer_vars>>

endpoint_vars == <<vars, installer_vars, preview_vars>>

Endpoint == EndpointInit /\ [][OneMoves]_endpoint_vars
=============================================================================
