--------------------------- MODULE MCAdminSettings ---------------------------
(***************************************************************************)
(* The settings/permissions page inside the admin frame (AdminShell): the  *)
(* page mounts with the sidebar and header once checkAuth has accepted an  *)
(* admin, and from then on its events interleave with the language menu    *)
(* and the sidebar's Settings button.                                       *)
(***************************************************************************)
EXTENDS MCPermissionMatrix

CONSTANTS NoSaved, OtherSaved

VARIABLES language, saved, effectRan, shellMounted, expandedItems

Shell == INSTANCE AdminShell

shellVars == <<language, saved, effectRan, shellMounted, expandedItems>>

consoleVars == <<vars, shellVars>>

ConsoleInit == Init /\ Shell!ShellInit

ConsoleNext ==
    \/ Shell!ShellNext /\ UNCHANGED vars
    \/ shellMounted /\ Next /\ UNCHANGED shellVars

ConsoleSpec == ConsoleInit /\ [][ConsoleNext]_consoleVars

ConsoleTypeOK == TypeOK /\ Shell!ShellTypeOK

=============================================================================
