------------------------------ MODULE LocalState ------------------------------
(* One user's machine: CLI processes on the database and on the pending     *)
(* request file, an agent process with a key handover agent in memory, and  *)
(* a page with a wallet popup client, each actor doing one thing at a time; *)
(* or an application of the fastid-sdk, which shares no state with the rest *)
(* and is followed alone.                                                   *)
EXTENDS AccountStore, AuthorizeCommands, WalletPopup, FastIdClient

machine == <<stores, agent, files, page>>
vars == <<activity, machine, fastid>>

Init == ActivityInit /\ StoresInit /\ AgentInit /\ FilesInit /\ PageInit /\ FastIdInit

Machine ==
  \/ \E a \in Actors :
       \/ StoresNext(a) /\ UNCHANGED <<agent, files, page>>
       \/ AgentNext(a) /\ UNCHANGED <<stores, files, page>>
       \/ AuthorizeNext(a) /\ UNCHANGED <<stores, page>>
       \/ PopupNext(a) /\ UNCHANGED <<stores, agent, files>>
  \/ Expire /\ UNCHANGED <<stores, files, page>>
  \/ Disconnect /\ UNCHANGED <<stores, agent, files>>

Next ==
  \/ client.calls = {} /\ Machine /\ UNCHANGED fastid
  \/ FastIdNext /\ UNCHANGED machine

Spec == Init /\ [][Next]_vars

-----------------------------------------------------------------------------
(* The tables, the file, the agent's record and the page's slot hold what   *)
(* their code can write there.                                              *)
TypeOK == StoresTypeOK /\ AgentTypeOK /\ FilesTypeOK /\ PopupTypeOK
=============================================================================
