------------------------------- MODULE MCHosts -------------------------------
(***************************************************************************)
(* What is handed out and kept outside the tables: ports, the game servers *)
(* of the companion and the clients on the players' machines.  They share  *)
(* nothing; a behaviour exercises one, the focus, chosen at the start.     *)
(* The companion's registry and its settings file share only who is logged *)
(* in, so they are looked at one at a time too.                            *)
(***************************************************************************)
EXTENDS Ports, GameHost, GameClients, TLC

CONSTANT Foci    \* what a run looks at

\* A server that the companion took over from its former self.
MCLegacy == {[id |-> "x", template |-> "custom"]}

\* Metin2 goes as Rakion does, and Tibia as MU does, with less in its patch.
MCTemplates == {"rakion", "priston", "muemu"}
MCOrders == {<<"exe", "data", "options", "endpoint", "body">>}

\* The goroutines that want ports are request goroutines too; the names that no
\* server has yet are alike.
Symmetry == Permutations(Clients) \cup Permutations(ServerIds \ {s.id : s \in Legacy})

VARIABLE focus

hosts == <<portVars, hostVars, clientVars, focus>>

\* What is not looked at starts in one way only.
Init == /\ PortsInit /\ HostInit /\ ClientsInit
        /\ focus \in Foci
        /\ focus # "ports" => \A u \in Users : user[u].app = CHOOSE a \in Apps : TRUE
        /\ \A s \in Legacy : box[s].port = Min(HostPorts) /\ (focus # "registry" => box[s].cpu = Min(CPUs))
        /\ template \in IF focus = "clients" THEN MCTemplates ELSE {"tibia"}

PortsStill == UNCHANGED portVars
HostStill == UNCHANGED hostVars
ClientsStill == UNCHANGED clientVars

Next ==
    /\ focus' = focus
    /\ \/ focus = "ports" /\ PortsNext /\ HostStill /\ ClientsStill
       \/ focus = "registry" /\ HostNext /\ UNCHANGED <<saves, inForce, unsure>> /\ PortsStill /\ ClientsStill
       \/ focus = "settings" /\ HostNext /\ UNCHANGED <<asks, box>> /\ PortsStill /\ ClientsStill
       \/ focus = "clients" /\ ClientsNext /\ PortsStill /\ HostStill

Spec == Init /\ [][Next]_hosts

\* The components that are not exercised stay as they were.
View == <<focus, CASE focus = "ports" -> portVars
                   [] focus = "clients" -> clientVars
                   [] OTHER -> hostVars>>

HostsTypeOK ==
    /\ focus = "ports" => PortsTypeOK
    /\ focus \in {"registry", "settings"} => HostTypeOK
    /\ focus = "clients" => ClientsTypeOK
=============================================================================
