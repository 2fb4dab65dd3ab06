-------------------------- MODULE ArchiveRegister --------------------------
(***************************************************************************)
(* What the export archive of a channel promises to those who download it, *)
(* whoever changes the channel meanwhile: every part of every document in  *)
(* it is as it was at some moment of the export that wrote the archive.    *)
(* An archive is replaced as a whole and is otherwise only removed; no     *)
(* archive shows as much as an empty one.                                  *)
(*                                                                         *)
(* `facts' are the facts that hold of the channel now (this part of this   *)
(* document has this version), `window[e]' those that held at some moment  *)
(* since export `e' began (none: it is not running), `archive' those that  *)
(* the archive shows.                                                      *)
(***************************************************************************)
CONSTANT Exporters

VARIABLES facts, archive, window

regVars == <<facts, archive, window>>

RegInit == archive = {} /\ window = [e \in Exporters |-> {}]

(* An export begins: what holds now may be shown. *)
Open(e) == /\ window[e] = {}
           /\ window' = [window EXCEPT ![e] = facts]
           /\ UNCHANGED <<facts, archive>>

(* The channel changes; every open window sees what holds afterwards. *)
Change == /\ window' = [e \in Exporters |->
                          IF window[e] = {} THEN {} ELSE window[e] \union facts']
          /\ UNCHANGED archive

Publish(e) == /\ archive' \subseteq window[e]
              /\ UNCHANGED <<facts, window>>

Close(e) == /\ window' = [window EXCEPT ![e] = {}]
            /\ UNCHANGED <<facts, archive>>

Withdraw == /\ archive' = {}
            /\ UNCHANGED <<facts, window>>

RegNext == \/ \E e \in Exporters : Open(e) \/ Publish(e) \/ Close(e)
           \/ Change
           \/ Withdraw

RegSpec == RegInit /\ [][RegNext]_regVars
============================================================================
