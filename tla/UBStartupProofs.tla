--------------------------- MODULE UBStartupProofs ---------------------------
(***************************************************************************)
(* The safety of the start-up, for every list of objects: whatever the      *)
(* number of directories and the numbers in their names.                   *)
(***************************************************************************)
EXTENDS UBStartup, SequenceTheorems, TLAPS

-----------------------------------------------------------------------------
(* The inductive invariant: what the position of the script and of the main *)
(* thread says of the threads that they do not wait for.                   *)

\* The main thread has posted the setID of object k, and inserted it: the object it is
\* inserting is between the two.
Begun(k) ==
  /\ main.phase # "off"
  /\ main.phase = "objects" => k < main.k
  /\ main.phase = "insert" => k <= main.k
Inserted(k) == main.phase # "off" /\ (main.phase \in {"objects", "insert"} => k < main.k)

\* An object takes its own id, and listens on its own port, once setID was posted; it is
\* linked once it was inserted.
Own ==
  \A k \in Obj : /\ m_id[k] \in {0, Names[k]} /\ port[k] \in {0, Port(Names[k])}
                 /\ k \in posted \/ m_id[k] # 0 \/ port[k] # 0 => Begun(k)
                 /\ Inserted(k) => Names[k] \in m_lnks

\* What the script has probed stays open.
Probed ==
  /\ agent # {} => script.phase \in {"agents", "wait"}
  /\ script.phase = "objects" => \A j \in 1..(script.k - 1) : port[j] # 0
  /\ script.phase \in {"agents", "wait"} => \A j \in Obj : port[j] # 0

\* The emulator runs, and makes links, once every firmware is up.
Flown ==
  /\ script.phase = "firmwares" => \A j \in 1..(script.k - 1) : firmware[j] = "up"
  /\ script.phase \notin {"launch", "firmwares"} => \A j \in Obj : firmware[j] = "up"
  /\ main.phase # "off" => script.phase \notin {"launch", "firmwares", "emulator"}
  /\ main.phase = "off" => \A j \in Obj : link[j] = "none"

Inv == TypeOK /\ Own /\ Probed /\ Flown /\ NoLinkFails /\ AddressBook

-----------------------------------------------------------------------------
\* Numbers up to 250 are ids of 8 bits, and have ports of 16 bits of their own.
LEMMA Ports ==
  ASSUME NEW a \in 1..250
  PROVE  /\ a \in quint8 /\ a # 0 /\ Port(a) \in quint16 /\ Port(a) # 0
         /\ \A b \in Nat : a # b => Port(a) # Port(b)
<1>1. a \in quint8 /\ a # 0
  BY DEF quint8
<1>2. Port(a) \in Nat /\ Port(a) > 0 /\ Port(a) < 20000
  BY DEF Port, NET_PORT
<1>3. ASSUME NEW x \in Nat, x < 20000 PROVE x \in quint16
  BY <1>3 DEF quint16
<1>4. Port(a) \in quint16
  BY <1>2, <1>3
<1>5. ASSUME NEW b \in Nat, a # b PROVE Port(a) # Port(b)
  BY <1>5 DEF Port, NET_PORT
<1> QED BY <1>1, <1>2, <1>4, <1>5

\* The objects have distinct numbers, which fit in a byte, and distinct ports.
\* (The sets quint8 and quint16 stay folded, for the provers list an interval
\* of literals.)
LEMMA Numbers ==
  /\ N \in Nat /\ N >= 1 /\ Obj = 1..N
  /\ 0 \in quint8 /\ 0 \in quint16
  /\ \A k \in Obj : /\ Names[k] \in quint8 /\ Names[k] # 0 /\ Id(k) = Names[k]
                    /\ Port(Names[k]) \in quint16 /\ Port(Names[k]) # 0
                    /\ \A j \in Obj : j # k => /\ Names[j] # Names[k]
                                               /\ Port(Names[j]) # Port(Names[k])
<1>1. N \in Nat /\ N >= 1 /\ Obj = 1..N
  BY NamesAssumption DEF N, Obj
<1>2. 0 \in quint8 /\ 0 \in quint16
  BY DEF quint8, quint16
<1>3. ASSUME NEW k \in Obj PROVE Names[k] \in 1..250
  BY <1>1, NamesAssumption, ElementOfSeq DEF N
<1>4. ASSUME NEW k \in Obj
      PROVE  /\ Names[k] \in quint8 /\ Names[k] # 0 /\ Id(k) = Names[k]
             /\ Port(Names[k]) \in quint16 /\ Port(Names[k]) # 0
  <2>1. Names[k] \in 1..250
    BY <1>3
  <2>2. Id(k) = Names[k]
    BY <2>1 DEF Id
  <2> QED BY <2>1, <2>2, Ports
<1>5. ASSUME NEW k \in Obj, NEW j \in Obj, j # k
      PROVE  Names[j] # Names[k] /\ Port(Names[j]) # Port(Names[k])
  <2>1. Names[j] # Names[k]
    BY <1>5, NamesAssumption DEF IsInjective, Obj
  <2> QED BY <2>1, <1>3, Ports
<1> QED BY <1>1, <1>2, <1>4, <1>5

\* The initial state satisfies the inductive invariant.
LEMMA InitInv == Init => Inv
<1> SUFFICES ASSUME Init PROVE Inv
  OBVIOUS
<1>1. TypeOK
  BY Numbers DEF Init, TypeOK, ScriptPhases, MainPhases
<1>2. Own
  BY Numbers DEF Init, Own, Begun, Inserted
<1>3. Probed /\ Flown /\ NoLinkFails
  BY Numbers DEF Init, Probed, Flown, NoLinkFails
<1>4. AddressBook
  BY Numbers DEF Init, AddressBook, None
<1> QED BY <1>1, <1>2, <1>3, <1>4 DEF Inv

-----------------------------------------------------------------------------
\* The variables keep their types.
LEMMA TypeStep == ASSUME TypeOK, [Next]_vars PROVE TypeOK'
<1> USE Numbers
<1>1. ASSUME NEW k \in Obj, Script(k) PROVE TypeOK'
  <2>1. CASE start_firmwares(k)
    BY <2>1 DEF Step, TypeOK, start_firmwares, emulator, ScriptPhases
  <2>2. CASE WaitForFirmware(k)
    BY <2>2 DEF Step, TypeOK, WaitForFirmware, emulator, ScriptPhases
  <2>3. CASE start_emulator
    BY <2>3 DEF TypeOK, start_emulator, ScriptPhases, MainPhases
  <2>4. CASE WaitForObject(k)
    BY <2>4 DEF Step, TypeOK, WaitForObject, emulator, ScriptPhases
  <2>5. CASE start_agents(k)
    BY <2>5 DEF Step, TypeOK, start_agents, emulator, ScriptPhases
  <2> QED BY <1>1, <2>1, <2>2, <2>3, <2>4, <2>5 DEF Script
<1>2. ASSUME NEW k \in Obj, Main(k) PROVE TypeOK'
  <2>1. CASE startEngine(k)
    BY <2>1 DEF TypeOK, startEngine, MainPhases
  <2>6. CASE InsertLink(k)
    BY <2>6 DEF Step, TypeOK, InsertLink, MainPhases
  <2>2. CASE AssignAddress(k)
    <3>1. AddressKey(k) \in quint8
      BY DEF TypeOK, AddressKey
    <3>2. m_adrs' \in [quint8 -> Obj \cup {None}]
      BY <2>2, <3>1 DEF TypeOK, AssignAddress
    <3> QED BY <2>2, <3>2 DEF Step, TypeOK, AssignAddress, MainPhases
  <2>3. CASE BindSocket(k)
    BY <2>3 DEF Step, TypeOK, BindSocket, MainPhases
  <2>4. CASE Boot
    BY <2>4 DEF TypeOK, Boot, MainPhases
  <2>5. CASE startAutoConnectedLinks(k)
    BY <2>5 DEF Step, TypeOK, startAutoConnectedLinks, MainPhases
  <2> QED BY <1>2, <2>1, <2>2, <2>3, <2>4, <2>5, <2>6 DEF Main
<1>3. ASSUME NEW k \in Obj, Threads(k) PROVE TypeOK'
  <2>1. CASE BootFirmware(k)
    BY <2>1 DEF TypeOK, BootFirmware, emulator
  <2>2. CASE setID(k)
    BY <2>2 DEF TypeOK, setID
  <2>4. CASE listen(k)
    BY <2>4 DEF TypeOK, listen, Listen
  <2>3. CASE hardwareConnect(k)
    BY <2>3 DEF TypeOK, hardwareConnect
  <2> QED BY <1>3, <2>1, <2>2, <2>3, <2>4 DEF Threads
<1>4. CASE UNCHANGED vars
  BY <1>4 DEF TypeOK, vars
<1> QED BY <1>1, <1>2, <1>3, <1>4 DEF Next

\* Posting precedes inserting, object by object, and the objects' threads follow the posts.
LEMMA OwnStep == ASSUME TypeOK, Own, Flown, [Next]_vars PROVE Own'
<1> USE Numbers
<1>1. ASSUME NEW k \in Obj, Script(k) PROVE Own'
  <2>1. CASE start_emulator
    <3>1. main.phase = "off"
      BY <2>1 DEF Flown, start_emulator, At
    <3>2. main'.phase = "objects" /\ main'.k = 1 /\ \A j \in Obj : ~(j < 1)
      BY <2>1 DEF start_emulator
    <3> QED BY <2>1, <3>1, <3>2 DEF Own, Begun, Inserted, start_emulator
  <2>2. CASE ~start_emulator
    BY <1>1, <2>2 DEF Own, Begun, Inserted, Script, start_firmwares, WaitForFirmware,
                      WaitForObject, start_agents, emulator
  <2> QED BY <2>1, <2>2
<1>2. ASSUME NEW k \in Obj, Main(k) PROVE Own'
  <2>1. CASE startEngine(k)
    BY <2>1 DEF TypeOK, Own, Begun, Inserted, startEngine, At
  <2>2. CASE InsertLink(k)
    <3>1. Names[k] \in m_lnks' /\ m_lnks \subseteq m_lnks'
      BY <2>2 DEF InsertLink
    <3>2. \A j \in Obj : (Begun(j) => Begun(j)') /\ (Inserted(j)' => Inserted(j) \/ j = k)
      BY <2>2 DEF TypeOK, Begun, Inserted, InsertLink, At, Step
    <3> QED BY <2>2, <3>1, <3>2 DEF Own, InsertLink
  <2>3. CASE AssignAddress(k)
    BY <2>3 DEF Own, Begun, Inserted, AssignAddress, At, Step
  <2>4. CASE BindSocket(k)
    BY <2>4 DEF Own, Begun, Inserted, BindSocket, At, Step
  <2>5. CASE Boot
    BY <2>5 DEF Own, Begun, Inserted, Boot
  <2>6. CASE startAutoConnectedLinks(k)
    BY <2>6 DEF Own, Begun, Inserted, startAutoConnectedLinks, At, Step
  <2> QED BY <1>2, <2>1, <2>2, <2>3, <2>4, <2>5, <2>6 DEF Main
<1>3. ASSUME NEW k \in Obj, Threads(k) PROVE Own'
  <2>1. CASE BootFirmware(k)
    BY <2>1 DEF TypeOK, Own, Begun, Inserted, BootFirmware, emulator
  <2>2. CASE setID(k)
    BY <2>2 DEF TypeOK, Own, Begun, Inserted, setID
  <2>4. CASE listen(k)
    BY <2>4 DEF TypeOK, Own, Begun, Inserted, listen, Listen
  <2>3. CASE hardwareConnect(k)
    BY <2>3 DEF TypeOK, Own, Begun, Inserted, hardwareConnect
  <2> QED BY <1>3, <2>1, <2>2, <2>3, <2>4 DEF Threads
<1>4. CASE UNCHANGED vars
  BY <1>4 DEF Own, Begun, Inserted, vars
<1> QED BY <1>1, <1>2, <1>3, <1>4 DEF Next

\* The script has seen the ports that its position says it has seen: the
\* object that answers the probe of port k is object k.
LEMMA ProbedStep == ASSUME TypeOK, Own, Probed, [Next]_vars PROVE Probed'
<1> USE Numbers
<1>1. ASSUME NEW k \in Obj, Script(k) PROVE Probed'
  <2>1. CASE start_firmwares(k)
    BY <2>1 DEF Step, TypeOK, Probed, start_firmwares, At, emulator
  <2>2. CASE WaitForFirmware(k)
    BY <2>2 DEF Step, TypeOK, Probed, WaitForFirmware, At, emulator
  <2>3. CASE start_emulator
    BY <2>3 DEF TypeOK, Probed, start_emulator, At
  <2>4. CASE WaitForObject(k)
    <3>1. port[k] # 0
      BY <2>4 DEF Own, WaitForObject, Probe
    <3> QED BY <2>4, <3>1 DEF Step, TypeOK, Probed, WaitForObject, At, emulator
  <2>5. CASE start_agents(k)
    BY <2>5 DEF Step, TypeOK, Probed, start_agents, At, emulator
  <2> QED BY <1>1, <2>1, <2>2, <2>3, <2>4, <2>5 DEF Script
<1>2. ASSUME NEW k \in Obj, Main(k) PROVE Probed'
  BY <1>2 DEF Probed, Main, startEngine, InsertLink, AssignAddress, BindSocket, Boot, startAutoConnectedLinks
<1>3. ASSUME NEW k \in Obj, Threads(k) PROVE Probed'
  <2>1. CASE BootFirmware(k)
    BY <2>1 DEF TypeOK, Probed, BootFirmware, emulator
  <2>2. CASE setID(k)
    BY <2>2 DEF Probed, setID
  <2>4. CASE listen(k)
    BY <2>4 DEF TypeOK, Probed, listen, Listen
  <2>3. CASE hardwareConnect(k)
    BY <2>3 DEF TypeOK, Probed, hardwareConnect
  <2> QED BY <1>3, <2>1, <2>2, <2>3, <2>4 DEF Threads
<1>4. CASE UNCHANGED vars
  BY <1>4 DEF Probed, vars
<1> QED BY <1>1, <1>2, <1>3, <1>4 DEF Next

\* The emulator is launched after the last firmware answered, and a firmware
\* that is up stays up.
LEMMA FlownStep == ASSUME TypeOK, Flown, NoLinkFails, [Next]_vars PROVE Flown' /\ NoLinkFails'
<1> USE Numbers
<1>1. ASSUME NEW k \in Obj, Script(k) PROVE Flown' /\ NoLinkFails'
  <2>1. CASE start_firmwares(k)
    BY <2>1 DEF Step, TypeOK, Flown, NoLinkFails, start_firmwares, At, emulator
  <2>2. CASE WaitForFirmware(k)
    BY <2>2 DEF Step, TypeOK, Flown, NoLinkFails, WaitForFirmware, FirmwareProbe, At, emulator
  <2>3. CASE start_emulator
    BY <2>3 DEF TypeOK, Flown, NoLinkFails, start_emulator, At
  <2>4. CASE WaitForObject(k)
    BY <2>4 DEF Step, TypeOK, Flown, NoLinkFails, WaitForObject, At, emulator
  <2>5. CASE start_agents(k)
    BY <2>5 DEF Step, TypeOK, Flown, NoLinkFails, start_agents, At, emulator
  <2> QED BY <1>1, <2>1, <2>2, <2>3, <2>4, <2>5 DEF Script
<1>2. ASSUME NEW k \in Obj, Main(k) PROVE Flown' /\ NoLinkFails'
  <2>1. main.phase # "off" /\ main'.phase # "off"
    BY <1>2 DEF Step, Main, startEngine, InsertLink, AssignAddress, BindSocket, Boot,
                       startAutoConnectedLinks, At
  <2> QED BY <1>2, <2>1 DEF TypeOK, Flown, NoLinkFails, Main, startEngine, InsertLink, AssignAddress,
                            BindSocket, Boot, startAutoConnectedLinks
<1>3. ASSUME NEW k \in Obj, Threads(k) PROVE Flown' /\ NoLinkFails'
  <2>1. CASE BootFirmware(k)
    BY <2>1 DEF TypeOK, Flown, NoLinkFails, BootFirmware, emulator
  <2>2. CASE setID(k)
    BY <2>2 DEF TypeOK, Flown, NoLinkFails, setID
  <2>4. CASE listen(k)
    BY <2>4 DEF TypeOK, Flown, NoLinkFails, listen
  <2>3. CASE hardwareConnect(k)
    BY <2>3 DEF TypeOK, Flown, NoLinkFails, hardwareConnect
  <2> QED BY <1>3, <2>1, <2>2, <2>3, <2>4 DEF Threads
<1>4. CASE UNCHANGED vars
  BY <1>4 DEF Flown, NoLinkFails, vars
<1> QED BY <1>1, <1>2, <1>3, <1>4 DEF Next

\* The addresses already given stay, and the next one goes to the id of its
\* object or, if the object did not take its id yet, under 0.
LEMMA AddressStep == ASSUME TypeOK, Own, AddressBook, [Next]_vars PROVE AddressBook'
<1> USE Numbers
<1>1. ASSUME NEW k \in Obj, Script(k) PROVE AddressBook'
  <2>1. CASE start_emulator
    BY <2>1 DEF AddressBook, start_emulator
  <2>2. CASE ~start_emulator
    BY <1>1, <2>2 DEF AddressBook, Script, start_firmwares, WaitForFirmware, WaitForObject,
                      start_agents, emulator
  <2> QED BY <2>1, <2>2
<1>2. ASSUME NEW k \in Obj, Main(k) PROVE AddressBook'
  <2>1. CASE startEngine(k)
    BY <2>1 DEF AddressBook, startEngine, At
  <2>6. CASE InsertLink(k)
    BY <2>6 DEF Step, AddressBook, InsertLink, At
  <2>2. CASE AssignAddress(k)
    <3>1. m_id[k] \in {0, Names[k]} /\ m_id[k] \in quint8
      BY DEF TypeOK, Own
    <3>2. m_adrs' = [m_adrs EXCEPT ![m_id[k]] = k] /\ DOMAIN m_adrs = quint8
      BY <2>2 DEF TypeOK, AssignAddress, AddressKey
    <3>3. \A i \in quint8 \ {0} : m_adrs'[i] # None => Names[m_adrs'[i]] = i
      BY <3>1, <3>2 DEF AddressBook
    <3>4. ASSUME m_adrs'[0] = None PROVE \A j \in 1..k : m_adrs'[Names[j]] = j
      <4>1. m_id[k] = Names[k] /\ m_adrs[0] = None
        BY <3>1, <3>2, <3>4 DEF None
      <4>2. \A j \in 1..(k - 1) : m_adrs[Names[j]] = j
        BY <2>2, <4>1 DEF AddressBook, AssignAddress, At
      <4> QED BY <3>2, <4>1, <4>2
    <3> QED BY <2>2, <3>3, <3>4 DEF Step, AddressBook, AssignAddress, At
  <2>3. CASE BindSocket(k)
    BY <2>3 DEF Step, AddressBook, BindSocket, At
  <2>4. CASE Boot
    BY <2>4 DEF AddressBook, Boot
  <2>5. CASE startAutoConnectedLinks(k)
    BY <2>5 DEF Step, AddressBook, startAutoConnectedLinks, At
  <2> QED BY <1>2, <2>1, <2>2, <2>3, <2>4, <2>5, <2>6 DEF Main
<1>3. ASSUME NEW k \in Obj, Threads(k) PROVE AddressBook'
  BY <1>3 DEF AddressBook, Threads, BootFirmware, setID, listen, hardwareConnect, emulator
<1>4. CASE UNCHANGED vars
  BY <1>4 DEF AddressBook, vars
<1> QED BY <1>1, <1>2, <1>3, <1>4 DEF Next

-----------------------------------------------------------------------------
\* The inductive invariant holds for every list of objects.
THEOREM Invariance == Spec => []Inv
<1>1. Inv /\ [Next]_vars => Inv'
  BY TypeStep, OwnStep, ProbedStep, FlownStep, AddressStep DEF Inv
<1> QED BY InitInv, <1>1, PTL DEF Spec

\* The variables keep their types: positions stay within the objects, ids in
\* bytes and ports in 16 bits.
THEOREM StartupTypes == Spec => []TypeOK
<1>1. Inv => TypeOK
  BY DEF Inv
<1> QED BY <1>1, Invariance, PTL

\* No agent runs before every object listens on the port of its own number, and every
\* object but the last is linked, however the script, the main thread and the objects'
\* threads interleave: the port of the last says that the main thread is inserting it, or
\* has done so.
THEOREM AgentsAreServed == Spec => []AgentsFindTheirObject
<1>1. Inv => AgentsFindTheirObject
  <2> SUFFICES ASSUME Inv, agent # {}, NEW k \in Obj
               PROVE  /\ port[k] = Port(Names[k])
                      /\ \A j \in Obj \ {k} : port[j] # port[k]
                      /\ Names[k] \in m_lnks \/ (k = N /\ At(main, "insert", N))
    BY DEF AgentsFindTheirObject
  <2>1. \A j \in Obj : port[j] # 0
    BY DEF Inv, Probed
  <2>2. port[k] = Port(Names[k]) /\ \A j \in Obj \ {k} : port[j] # port[k]
    BY <2>1, Numbers DEF Inv, Own
  <2>3. Begun(N)
    BY <2>1, Numbers DEF Inv, Own
  <2>4. Inserted(k) \/ (k = N /\ main.phase = "insert" /\ main.k = N)
    BY <2>3, Numbers DEF Begun, Inserted, Inv, TypeOK
  <2>5. main = [phase |-> main.phase, k |-> main.k]
    BY DEF Inv, TypeOK
  <2> QED BY <2>2, <2>4, <2>5 DEF Inv, Own, At
<1> QED BY <1>1, Invariance, PTL

\* An id above 0 is given the address of its own object only, and every address
\* is in the book unless the race with setID left one under 0.
THEOREM AddressesAreRight == Spec => []AddressBook
<1>1. Inv => AddressBook
  BY DEF Inv
<1> QED BY <1>1, Invariance, PTL

\* The one attempt that a link makes finds its firmware up.
THEOREM LinksSucceed == Spec => []NoLinkFails
<1>1. Inv => NoLinkFails
  BY DEF Inv
<1> QED BY <1>1, Invariance, PTL
=============================================================================
