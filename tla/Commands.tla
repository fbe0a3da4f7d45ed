------------------------------ MODULE Commands ------------------------------
(***************************************************************************)
(* What the commands make of paths, of selectors and of names: Tree,       *)
(* Selection and Registry.  They share no state, and each is explored by   *)
(* itself: a behaviour is one of the part that it begins with, and the     *)
(* others stay as they are.                                                *)
(***************************************************************************)
EXTENDS Tree, Selection, Registry

CONSTANT Explored   \* the parts explored

VARIABLE part

commandsVars == <<part, vars, records, registryVars>>

CommandsInit == part \in Explored /\ Init /\ SelectionInit /\ RegistryInit

NextTree == part = "tree" /\ Next /\ UNCHANGED <<part, records, registryVars>>
NextSelection == part = "selection" /\ SelectionNext /\ UNCHANGED <<part, vars, registryVars>>
NextRegistry == part = "registry" /\ RegistryNext /\ UNCHANGED <<part, vars, records>>

CommandsSpec == CommandsInit /\ [][NextTree \/ NextSelection \/ NextRegistry]_commandsVars

\* Every part's variables are what they are meant to be.
CommandsTypeOK == TypeOK /\ SelectionTypeOK /\ RegistryTypeOK
=============================================================================
