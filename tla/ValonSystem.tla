----------------------------- MODULE ValonSystem ----------------------------
(* The plugin together with the commands that change its surroundings.  The  *)
(* two meet in etcd, on the device, and in the DELETE request peer remove     *)
(* sends before it deletes the peer from etcd.                               *)
EXTENDS ValonPlugin, ValonCtl

sysVars == <<vars, ctl>>

SysInit == Init /\ CtlInit

PluginStep ==
    /\ \/ Starting \/ Syncing \/ Polling
       \/ \E r \in Req : Serving(r) \/ Requesting(r)
       \/ PeerMoves
    /\ UNCHANGED ctl

PluginStop == (Restart \/ Reboot) /\ Disconnect

CallDdns(c) ==
    /\ RemoveCall(c)
    /\ \E r \in Req : Deleting(r, ctl[c].key)

\* The DELETE handler has returned.
AnswerDdns(c) ==
    /\ RemoveAnswered(c)
    /\ \A r \in Req : ddns[r].key = ctl[c].key => ddns[r].pc \notin {"delete", "unalias"}
    /\ UNCHANGED pluginVars

CommandStep(c) == CtlStep(c) /\ UNCHANGED pluginVars

SysNext ==
    \/ PluginStep \/ PluginStop
    \/ \E c \in Cmd : CallDdns(c) \/ AnswerDdns(c) \/ CommandStep(c)

SysSpec == SysInit /\ [][SysNext]_sysVars

\* What the commands do is what ValonPlugin lets administrators do, so that all
\* that holds of the plugin there holds of it here.
ImplementsPlugin == Spec

\* What the plugin does to the servers while a command runs is what ValonCtl lets
\* its environment do: it puts fields and aliases of the requests it was sent and
\* restores peers, but deletes no key of etcd and no peer of the device.
ImplementsCommands == CtlSpec

\* peer_remove.go:19-21: "This command: 1. Removes the peer from the WireGuard
\* interface 2. Deletes the peer registration from etcd".  A peer that remove
\* deleted, the plugin having acknowledged, is not in etcd as long as no other
\* command runs.
RemovedStaysRemoved ==
    \A c \in Cmd :
        At(c, "removed") /\ ctl[c].acked /\ (\A d \in Cmd \ {c} : At(d, "idle"))
            => ~HasKeys(ctl[c].key)
=============================================================================
