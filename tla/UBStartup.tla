------------------------------ MODULE UBStartup ------------------------------
(***************************************************************************)
(* How the emulator comes up: start_emulator.sh, the main thread running    *)
(* UBEngine::startEngine and setupNetwork and then QGroundControl's boot,   *)
(* the threads of the UBObjects, and those of the TCP links to the          *)
(* firmwares.  The script learns how far the emulator is only by probing    *)
(* ports with nc.                                                          *)
(***************************************************************************)
EXTENDS Naturals, Sequences, Functions

CONSTANT Names     \* the numbers xxx of the directories objects/mav_xxx, sorted;
                   \* README.md:52 says that they are in the range 001 - 250

ASSUME NamesAssumption ==
  /\ Names \in Seq(1..250) /\ Names # <<>> /\ IsInjective(Names)

Obj == DOMAIN Names        \* objects, in the order of their directories
N == Len(Names)
None == 0
quint8 == 0..255
quint16 == {x \in Nat : x < 65536}

MutantIdUnparsed(k) == 0                       \* toUInt() of the whole name
Id(k) == Names[k] % 256                        \* quint8 id = name.toUInt()
NET_PORT == 15760
Port(id) == 10 * id + NET_PORT

VARIABLES
  script,      \* where the script is: its phase, and the name it deals with
  firmware,    \* "off", "booting", or "up": its ports are open
  main,        \* where the emulator's main thread is, and the object at hand
  posted,      \* a setID waits in the queue of the object's thread
  m_id, port,  \* the id an object read from its queue, the port it listens on
  m_lnks,      \* the ids linked
  m_adrs,      \* the object whose address is stored under an id
  aggregated,  \* the objects whose node has its ns-3 socket
  link,        \* the TCP link of each firmware
  agent        \* the agents started

vars == <<script, firmware, main, posted, m_id, port, m_lnks, m_adrs, aggregated, link, agent>>
emulator == <<main, posted, m_id, port, m_lnks, m_adrs, aggregated, link>>

At(pc, phase, k) == pc = [phase |-> phase, k |-> k]
\* The next object of the phase, or the next phase.
Step(phase, k, next) ==
  IF k < N THEN [phase |-> phase, k |-> k + 1] ELSE [phase |-> next, k |-> 1]

ScriptPhases == {"launch", "firmwares", "emulator", "objects", "agents", "wait"}
MainPhases == {"off", "objects", "insert", "addresses", "sockets", "boot", "links", "loop"}

TypeOK ==
  /\ script \in [phase : ScriptPhases, k : Obj] /\ main \in [phase : MainPhases, k : Obj]
  /\ firmware \in [Obj -> {"off", "booting", "up"}]
  /\ posted \subseteq Obj /\ m_id \in [Obj -> quint8] /\ port \in [Obj -> quint16]
  /\ m_lnks \subseteq quint8 \ {0} /\ m_adrs \in [quint8 -> Obj \cup {None}]
  /\ aggregated \subseteq Obj /\ agent \subseteq Obj
  /\ link \in [Obj -> {"none", "connecting", "connected", "failed"}]

Init ==
  /\ script = [phase |-> "launch", k |-> 1] /\ main = [phase |-> "off", k |-> 1]
  /\ firmware = [k \in Obj |-> "off"] /\ posted = {}
  /\ m_id = [k \in Obj |-> 0] /\ port = [k \in Obj |-> 0]
  /\ m_lnks = {} /\ m_adrs = [i \in quint8 |-> None] /\ aggregated = {}
  /\ link = [k \in Obj |-> "none"] /\ agent = {}

-----------------------------------------------------------------------------
(* start_emulator.sh, and the firmwares it launches.                       *)

start_firmwares(k) ==
  /\ At(script, "launch", k)
  /\ firmware' = [firmware EXCEPT ![k] = "booting"]
  /\ script' = Step("launch", k, "firmwares")
  /\ UNCHANGED <<emulator, agent>>

BootFirmware(k) ==
  /\ firmware[k] = "booting" /\ firmware' = [firmware EXCEPT ![k] = "up"]
  /\ UNCHANGED <<script, emulator, agent>>

MutantFirmwareProbe(k) == firmware[k] # "off"  \* does not wait for the port
FirmwareProbe(k) == firmware[k] = "up"

WaitForFirmware(k) ==
  /\ At(script, "firmwares", k) /\ FirmwareProbe(k)
  /\ script' = Step("firmwares", k, "emulator")
  /\ UNCHANGED <<firmware, emulator, agent>>

start_emulator ==
  /\ At(script, "emulator", 1)
  /\ script' = [phase |-> "objects", k |-> 1] /\ main' = [phase |-> "objects", k |-> 1]
  /\ UNCHANGED <<firmware, posted, m_id, port, m_lnks, m_adrs, aggregated, link, agent>>

\* nc -z on the port of object k succeeds once someone listens on it.
MutantProbe(k) == \E j \in Obj : port[j] # 0             \* any object will do
Probe(k) == \E j \in Obj : port[j] = Port(Names[k])

WaitForObject(k) ==
  /\ At(script, "objects", k) /\ Probe(k)
  /\ script' = Step("objects", k, "agents")
  /\ UNCHANGED <<firmware, emulator, agent>>

start_agents(k) ==
  /\ At(script, "agents", k)
  /\ agent' = agent \cup {k}
  /\ script' = Step("agents", k, "wait")
  /\ UNCHANGED <<firmware, emulator>>

-----------------------------------------------------------------------------
(* The main thread.                                                        *)

\* setID is posted before the object is inserted into m_lnks: in between its thread may
\* take the id and listen, and the script see the port.
startEngine(k) ==
  /\ At(main, "objects", k)
  /\ posted' = posted \cup {k}
  /\ main' = [phase |-> "insert", k |-> k]
  /\ UNCHANGED <<script, firmware, m_id, port, m_lnks, m_adrs, aggregated, link, agent>>

InsertLink(k) ==
  /\ At(main, "insert", k)
  /\ m_lnks' = m_lnks \cup {Id(k)}
  /\ main' = Step("objects", k, "addresses")
  /\ UNCHANGED <<script, firmware, posted, m_id, port, m_adrs, aggregated, link, agent>>

\* The id is read from the object, whose thread may not have set it yet.
MutantAddressKey(k) == m_id[N + 1 - k]         \* iterates devices in reverse
AddressKey(k) == m_id[k]

AssignAddress(k) ==
  /\ At(main, "addresses", k)
  /\ m_adrs' = [m_adrs EXCEPT ![AddressKey(k)] = k]
  /\ main' = Step("addresses", k, "sockets")
  /\ UNCHANGED <<script, firmware, posted, m_id, port, m_lnks, aggregated, link, agent>>

BindSocket(k) ==
  /\ At(main, "sockets", k)
  /\ aggregated' = aggregated \cup {k}
  /\ main' = Step("sockets", k, "boot")
  /\ UNCHANGED <<script, firmware, posted, m_id, port, m_lnks, m_adrs, link, agent>>

\* The ns-3 thread starts, and QGroundControl boots.
Boot ==
  /\ main.phase = "boot" /\ main' = [phase |-> "links", k |-> 1]
  /\ UNCHANGED <<script, firmware, posted, m_id, port, m_lnks, m_adrs, aggregated, link, agent>>

startAutoConnectedLinks(k) ==
  /\ At(main, "links", k)
  /\ link' = [link EXCEPT ![k] = "connecting"]
  /\ main' = Step("links", k, "loop")
  /\ UNCHANGED <<script, firmware, posted, m_id, port, m_lnks, m_adrs, aggregated, agent>>

-----------------------------------------------------------------------------
(* The threads of object k and of the TCP link to firmware k.              *)

MutantListen(k) == Port(0)                     \* listens before taking the id
Listen(k) == Port(Id(k))

\* The id can be read from the moment it is set, before the port is open.
setID(k) ==
  /\ k \in posted /\ posted' = posted \ {k}
  /\ m_id' = [m_id EXCEPT ![k] = Id(k)]
  /\ UNCHANGED <<script, firmware, main, port, m_lnks, m_adrs, aggregated, link, agent>>

listen(k) ==
  /\ m_id[k] # 0 /\ port[k] = 0
  /\ port' = [port EXCEPT ![k] = Listen(k)]
  /\ UNCHANGED <<script, firmware, main, posted, m_id, m_lnks, m_adrs, aggregated, link, agent>>

\* One attempt, of a second; nothing tries again.
hardwareConnect(k) ==
  /\ link[k] = "connecting"
  /\ link' = [link EXCEPT ![k] = IF firmware[k] = "up" THEN "connected" ELSE "failed"]
  /\ UNCHANGED <<script, firmware, main, posted, m_id, port, m_lnks, m_adrs, aggregated, agent>>

-----------------------------------------------------------------------------
Script(k) == \/ start_firmwares(k) \/ WaitForFirmware(k) \/ start_emulator
             \/ WaitForObject(k) \/ start_agents(k)
Main(k) == \/ startEngine(k) \/ InsertLink(k) \/ AssignAddress(k) \/ BindSocket(k)
           \/ Boot \/ startAutoConnectedLinks(k)
Threads(k) == BootFirmware(k) \/ setID(k) \/ listen(k) \/ hardwareConnect(k)

Next == \E k \in Obj : Script(k) \/ Main(k) \/ Threads(k)

Spec == Init /\ [][Next]_vars
Fairness == \A k \in Obj : /\ WF_vars(Script(k)) /\ WF_vars(Main(k))
                           /\ WF_vars(BootFirmware(k)) /\ WF_vars(setID(k)) /\ WF_vars(listen(k))
                           /\ WF_vars(hardwareConnect(k))
FairSpec == Spec /\ Fairness

-----------------------------------------------------------------------------
\* When an agent starts, the port of every object is open and is served by the
\* object of that very id: no agent dials before its object, or its peers'
\* objects, can answer, and none reaches somebody else's.  Every object is linked
\* by then, but the last, which startEngine may be about to insert: until it did,
\* that object throws away what its agent sends.
AgentsFindTheirObject ==
  agent # {} => \A k \in Obj : /\ port[k] = Port(Names[k])
                               /\ \A j \in Obj \ {k} : port[j] # port[k]
                               /\ Names[k] \in m_lnks \/ (k = N /\ At(main, "insert", N))

\* The address book: an id is never given somebody else's address, and if the
\* race with setID lost an address, it left its mark under id 0.
AddressBook ==
  LET done == CASE main.phase \in {"off", "objects", "insert"} -> {}
                [] main.phase = "addresses" -> 1..(main.k - 1)
                [] OTHER -> Obj
  IN /\ \A i \in quint8 \ {0} : m_adrs[i] # None => Names[m_adrs[i]] = i
     /\ m_adrs[0] = None => \A k \in done : m_adrs[Names[k]] = k

\* The links are made after the firmwares' ports were seen open, hence the one
\* attempt each link makes does not fail.
NoLinkFails == \A k \in Obj : link[k] # "failed"

\* Everything comes up: the nc loops end, the agents run, the objects and the firmwares
\* are linked.
ComesUp ==
  <>(agent = Obj /\ aggregated = Obj /\ \A k \in Obj : Names[k] \in m_lnks /\ link[k] = "connected")
=============================================================================
