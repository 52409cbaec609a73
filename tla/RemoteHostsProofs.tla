------------------------- MODULE RemoteHostsProofs -------------------------
(***************************************************************************)
(* For any hosts, foreground calls, restarts and configurations: a host is  *)
(* listed as being checked only while a call checks it, the stored row      *)
(* agrees with the registry when the last call to the host was alone, and   *)
(* what a process loads is layered as documented, lends no ssh command to a *)
(* project's file, and is what the servers started for it load.             *)
(***************************************************************************)
EXTENDS RemoteHosts, TLAPS

(* What the process may still find are inputs; a call has a configured host. *)
Places ==
    /\ inputs \subseteq Inputs /\ (inputs # {} => hosts = {})
    /\ \A c \in Tasks : call[c].pc # "idle" => call[c].host \in hosts

(* A host that is "connecting" has a call that has not reported yet.        *)
Unreported == {"storeConnecting", "initialize", "tool", "drain", "report"}
Connecting ==
    \A h \in HostIds : health[h].state = "connecting" =>
        \E c \in Tasks : call[c].host = h /\ call[c].pc \in Unreported

(* A host whose last call is alone has no other call, and that call will    *)
(* store what the registry knows.                                           *)
OneCall ==
    \A h \in alone :
        /\ \A c, d \in InFlight(h) : c = d
        /\ \A c \in InFlight(h) : call[c].pc = "storeOutcome" => call[c].row = health[h]
        /\ InFlight(h) = {} => stored[h] = health[h]

IInv == TypeOK /\ Places /\ Connecting /\ OneCall
-----------------------------------------------------------------------------
CallRecords ==
    [pc : {"idle", "storeConnecting", "initialize", "tool", "drain", "report", "storeOutcome"},
     host : HostIds \cup {Unset}, ok : BOOLEAN, row : Health]

LEMMA NoCallType == NotChecked \in Health /\ NoCall \in CallRecords
BY DEF NotChecked, NoCall, Health, CallRecords

LEMMA UpdatedType ==
    ASSUME TypeOK, NEW h \in HostIds, NEW capabilities \in BOOLEAN,
           NEW state \in {"not_checked", "connecting", "available", "unavailable"}
    PROVE  /\ Updated(h, state, capabilities) \in Health
           /\ Updated(h, state, capabilities).state = state
BY DEF Updated, Health, TypeOK

LEMMA InitInv == Init => IInv
<1> SUFFICES ASSUME Init PROVE IInv
  OBVIOUS
<1>1. TypeOK
  BY NoCallType, RegistryAssumption DEF Init, TypeOK, CallRecords
<1>2. Places
  BY DEF Init, Places, NoCall
<1>3. Connecting /\ OneCall
  BY DEF Init, Connecting, OneCall, NotChecked
<1> QED  BY <1>1, <1>2, <1>3 DEF IInv

\* One call changes, to a record of its type that keeps the host, or becomes
\* idle; the health of its host alone may change with it.
LEMMA CallChanges ==
    ASSUME IInv, NEW c \in Tasks, NEW new \in CallRecords, NEW h \in hosts,
           call' = [call EXCEPT ![c] = new],
           NEW row \in Health, health' = health \/ health' = [health EXCEPT ![h] = row],
           UNCHANGED config,
           new.pc # "idle" => new.host = h
    PROVE  /\ health' \in [HostIds -> Health] /\ call' \in [Tasks -> CallRecords] /\ Places'
           /\ call'[c] = new /\ \A d \in Tasks : d # c => call'[d] = call[d]
           /\ \A g \in HostIds : g # h => health'[g] = health[g]
<1> USE DEF IInv, TypeOK, config
<1>1. /\ health' \in [HostIds -> Health] /\ call' \in [Tasks -> CallRecords]
      /\ call'[c] = new /\ \A d \in Tasks : d # c => call'[d] = call[d]
      /\ \A g \in HostIds : g # h => health'[g] = health[g]
  BY DEF CallRecords
<1>2. Places'
  BY <1>1 DEF Places
<1> QED  BY <1>1, <1>2

LEMMA BeginInv ==
    ASSUME IInv, NEW c \in Tasks, NEW h \in hosts, call[c].pc = "idle", Begin(c, h),
           UNCHANGED <<config, stored>>, toWarm' \subseteq toWarm
    PROVE  IInv'
<1> DEFINE row == Updated(h, "connecting", FALSE)
           new == [pc |-> "storeConnecting", host |-> h, ok |-> FALSE, row |-> row]
<1>1. h \in HostIds
  BY DEF IInv, TypeOK
<1>2. row \in Health /\ row.state = "connecting"
  BY <1>1, UpdatedType DEF IInv
<1>3. new \in CallRecords /\ new.pc = "storeConnecting" /\ new.host = h
  BY <1>1, <1>2 DEF CallRecords
<1>4. /\ health' = [health EXCEPT ![h] = row] /\ call' = [call EXCEPT ![c] = new]
      /\ alone' = IF InFlight(h) = {} THEN alone \cup {h} ELSE alone \ {h}
  BY DEF Begin
<1> HIDE DEF row, new
<1>5. /\ health' \in [HostIds -> Health] /\ call' \in [Tasks -> CallRecords] /\ Places'
      /\ call'[c] = new /\ \A d \in Tasks : d # c => call'[d] = call[d]
      /\ \A g \in HostIds : g # h => health'[g] = health[g]
  BY <1>2, <1>3, <1>4, CallChanges
<1>6. TypeOK'
  BY <1>1, <1>4, <1>5 DEF IInv, TypeOK, CallRecords, config
<1>7. Connecting'
  BY <1>3, <1>5 DEF IInv, Connecting, Unreported
<1>8. OneCall'
  <2> SUFFICES ASSUME NEW g \in alone'
               PROVE  /\ \A d, e \in InFlight(g)' : d = e
                      /\ \A d \in InFlight(g)' : call'[d].pc = "storeOutcome" => call'[d].row = health'[g]
                      /\ InFlight(g)' = {} => stored'[g] = health'[g]
    BY DEF OneCall
  <2>1. CASE g = h
    <3>1. InFlight(h) = {}
      BY <1>4, <2>1
    <3>2. InFlight(h)' = {c}
      BY <1>3, <1>5, <3>1 DEF InFlight
    <3> QED  BY <1>3, <1>5, <2>1, <3>2
  <2>2. CASE g # h
    <3>1. g \in alone /\ g \in HostIds
      BY <1>4, <2>2 DEF IInv, TypeOK
    <3>2. InFlight(g)' = InFlight(g)
      BY <1>3, <1>5, <2>2 DEF InFlight
    <3>3. \A d \in InFlight(g) : call'[d] = call[d]
      BY <1>5 DEF InFlight
    <3> QED  BY <1>5, <2>2, <3>1, <3>2, <3>3 DEF IInv, OneCall
  <2> QED  BY <2>1, <2>2
<1> QED  BY <1>5, <1>6, <1>7, <1>8 DEF IInv

\* A call goes on between its first and its last write.
LEMMA MovesInv ==
    ASSUME IInv, NEW c \in Tasks, call[c].pc \in Unreported,
           NEW new \in CallRecords, new.host = call[c].host, new.pc \in Unreported,
           call' = [call EXCEPT ![c] = new],
           UNCHANGED <<config, health, toWarm>>,
           \/ stored' = [stored EXCEPT ![call[c].host] = call[c].row] /\ UNCHANGED alone
           \/ alone' = alone \ {call[c].host} /\ UNCHANGED stored
           \/ UNCHANGED <<stored, alone>>
    PROVE  IInv'
<1> DEFINE h == call[c].host
<1>1. h \in hosts /\ h \in HostIds /\ call[c].row \in Health
  BY DEF IInv, Places, Unreported, TypeOK
<1>2. /\ health' \in [HostIds -> Health] /\ call' \in [Tasks -> CallRecords] /\ Places'
      /\ call'[c] = new /\ \A d \in Tasks : d # c => call'[d] = call[d]
  BY <1>1, CallChanges DEF Unreported
<1>3. TypeOK'
  BY <1>1, <1>2 DEF IInv, TypeOK, CallRecords, config
<1>4. Connecting'
  BY <1>2 DEF IInv, Connecting
<1>5. \A g \in HostIds : InFlight(g)' = InFlight(g)
  BY <1>2 DEF InFlight, Unreported
<1>6. c \in InFlight(h) /\ alone' \subseteq alone /\ alone \subseteq HostIds
  BY DEF InFlight, Unreported, IInv, TypeOK
<1>7. OneCall'
  <2> SUFFICES ASSUME NEW g \in alone'
               PROVE  /\ \A d, e \in InFlight(g)' : d = e
                      /\ \A d \in InFlight(g)' : call'[d].pc = "storeOutcome" => call'[d].row = health'[g]
                      /\ InFlight(g)' = {} => stored'[g] = health'[g]
    BY DEF OneCall
  <2>1. /\ g \in alone /\ g \in HostIds /\ InFlight(g)' = InFlight(g)
    BY <1>5, <1>6
  <2>2. /\ \A d, e \in InFlight(g) : d = e
        /\ \A d \in InFlight(g) : call[d].pc = "storeOutcome" => call[d].row = health[g]
        /\ InFlight(g) = {} => stored[g] = health[g]
    BY <2>1 DEF IInv, OneCall
  <2>3. \A d \in InFlight(g) : call'[d].pc = "storeOutcome" => d # c /\ call'[d] = call[d]
    BY <1>2 DEF InFlight, Unreported
  <2>4. InFlight(g) = {} => g # h /\ stored'[g] = stored[g]
    BY <1>6, <2>1 DEF IInv, TypeOK
  <2> QED  BY <2>1, <2>2, <2>3, <2>4
<1> QED  BY <1>2, <1>3, <1>4, <1>7 DEF IInv

\* It reports, to the registry, ...
LEMMA ReportInv ==
    ASSUME IInv, NEW c \in Tasks, Report(c)
    PROVE  IInv'
<1> DEFINE h == call[c].host
           state == IF call[c].ok THEN "available" ELSE "unavailable"
<1>1. call[c].pc = "report" /\ call[c] \in CallRecords /\ UNCHANGED <<config, stored, toWarm, alone>>
  BY DEF Report, IInv, TypeOK, CallRecords
<1>2. h \in hosts /\ h \in HostIds
  BY <1>1 DEF IInv, Places, TypeOK
<1>3. PICK parsed \in BOOLEAN :
        LET row == Updated(h, state, call[c].ok /\ c = Warmup /\ parsed)
        IN /\ health' = [health EXCEPT ![h] = row]
           /\ call' = [call EXCEPT ![c] = [@ EXCEPT !.pc = "storeOutcome", !.row = row]]
  BY DEF Report
<1> DEFINE row == Updated(h, state, call[c].ok /\ c = Warmup /\ parsed)
           new == [call[c] EXCEPT !.pc = "storeOutcome", !.row = row]
<1>4. row \in Health /\ row.state # "connecting"
  <2>1. (call[c].ok /\ c = Warmup /\ parsed) \in BOOLEAN
    OBVIOUS
  <2> QED  BY <1>2, <2>1, UpdatedType DEF IInv
<1>5. health' = [health EXCEPT ![h] = row] /\ call' = [call EXCEPT ![c] = new]
  BY <1>3 DEF IInv, TypeOK
<1> HIDE DEF row
<1>6. new \in CallRecords /\ new.pc = "storeOutcome" /\ new.host = h /\ new.row = row
  BY <1>1, <1>4 DEF CallRecords
<1> HIDE DEF new
<1>7. /\ health' \in [HostIds -> Health] /\ call' \in [Tasks -> CallRecords] /\ Places'
      /\ call'[c] = new /\ \A d \in Tasks : d # c => call'[d] = call[d]
      /\ \A g \in HostIds : g # h => health'[g] = health[g]
  BY <1>1, <1>2, <1>4, <1>5, <1>6, CallChanges
<1>8. TypeOK'
  BY <1>1, <1>7 DEF IInv, TypeOK, CallRecords, config
<1>9. health'[h] = row
  BY <1>2, <1>5 DEF IInv, TypeOK
<1>10. Connecting'
  <2> SUFFICES ASSUME NEW g \in HostIds, health'[g].state = "connecting"
               PROVE  \E d \in Tasks : call'[d].host = g /\ call'[d].pc \in Unreported
    BY DEF Connecting
  <2>1. g # h
    BY <1>4, <1>9
  <2>2. PICK d \in Tasks : call[d].host = g /\ call[d].pc \in Unreported
    BY <1>7, <2>1 DEF IInv, Connecting
  <2> QED  BY <1>7, <2>1, <2>2
<1>11. OneCall'
  <2> SUFFICES ASSUME NEW g \in alone'
               PROVE  /\ \A d, e \in InFlight(g)' : d = e
                      /\ \A d \in InFlight(g)' : call'[d].pc = "storeOutcome" => call'[d].row = health'[g]
                      /\ InFlight(g)' = {} => stored'[g] = health'[g]
    BY DEF OneCall
  <2>1. g \in alone /\ g \in HostIds /\ InFlight(g)' = InFlight(g)
    BY <1>1, <1>6, <1>7 DEF InFlight, IInv, TypeOK
  <2>2. /\ \A d, e \in InFlight(g) : d = e
        /\ \A d \in InFlight(g) : call[d].pc = "storeOutcome" => call[d].row = health[g]
        /\ InFlight(g) = {} => stored[g] = health[g]
    BY <2>1 DEF IInv, OneCall
  <2>3. CASE g = h
    <3>1. InFlight(g) = {c}
      BY <1>1, <2>2, <2>3 DEF InFlight
    <3> QED  BY <1>6, <1>7, <1>9, <2>1, <2>3, <3>1
  <2>4. CASE g # h
    <3>1. \A d \in InFlight(g) : call'[d] = call[d] /\ health'[g] = health[g]
      BY <1>7, <2>1, <2>4 DEF InFlight
    <3> QED  BY <1>1, <1>7, <2>1, <2>2, <2>4, <3>1
  <2> QED  BY <2>3, <2>4
<1> QED  BY <1>7, <1>8, <1>10, <1>11 DEF IInv

\* ... and to the store.
LEMMA StoreOutcomeInv ==
    ASSUME IInv, NEW c \in Tasks, StoreOutcome(c)
    PROVE  IInv'
<1> DEFINE h == call[c].host
<1>1. /\ call[c].pc = "storeOutcome" /\ call' = [call EXCEPT ![c] = NoCall]
      /\ UNCHANGED <<config, health, toWarm>>
      /\ \/ stored' = [stored EXCEPT ![h] = call[c].row] /\ UNCHANGED alone
         \/ alone' = alone \ {h} /\ UNCHANGED stored
  BY DEF StoreOutcome, Store
<1>2. h \in hosts /\ h \in HostIds /\ call[c].row \in Health
  BY <1>1 DEF IInv, Places, TypeOK
<1>3. /\ health' \in [HostIds -> Health] /\ call' \in [Tasks -> CallRecords] /\ Places'
      /\ call'[c] = NoCall /\ \A d \in Tasks : d # c => call'[d] = call[d]
  BY <1>1, <1>2, NoCallType, CallChanges DEF NoCall
<1>4. TypeOK'
  BY <1>1, <1>2, <1>3 DEF IInv, TypeOK, CallRecords, config
<1>5. Connecting'
  BY <1>1, <1>3 DEF IInv, Connecting, Unreported
<1>6. OneCall'
  <2> SUFFICES ASSUME NEW g \in alone'
               PROVE  /\ \A d, e \in InFlight(g)' : d = e
                      /\ \A d \in InFlight(g)' : call'[d].pc = "storeOutcome" => call'[d].row = health'[g]
                      /\ InFlight(g)' = {} => stored'[g] = health'[g]
    BY DEF OneCall
  <2>1. g \in alone /\ g \in HostIds /\ InFlight(g)' = InFlight(g) \ {c}
    BY <1>1, <1>3 DEF InFlight, IInv, TypeOK, NoCall
  <2>2. /\ \A d, e \in InFlight(g) : d = e
        /\ \A d \in InFlight(g) : call[d].pc = "storeOutcome" => call[d].row = health[g]
        /\ InFlight(g) = {} => stored[g] = health[g]
    BY <2>1 DEF IInv, OneCall
  <2>3. \A d \in InFlight(g)' : call'[d] = call[d]
    BY <1>3, <2>1 DEF InFlight
  <2>4. CASE g = h
    <3>1. c \in InFlight(g) /\ stored'[g] = call[c].row
      BY <1>1, <1>2, <2>4 DEF InFlight, IInv, TypeOK
    <3> QED  BY <1>1, <2>1, <2>2, <2>3, <3>1
  <2>5. CASE g # h
    <3>1. c \notin InFlight(g) /\ stored'[g] = stored[g]
      BY <1>1, <2>1, <2>5 DEF InFlight, IInv, TypeOK
    <3> QED  BY <1>1, <2>1, <2>2, <2>3, <3>1
  <2> QED  BY <2>4, <2>5
<1> QED  BY <1>3, <1>4, <1>5, <1>6 DEF IInv

LEMMA GotoInv ==
    ASSUME IInv, NEW c \in Tasks, call[c].pc \in Unreported, NEW pc \in Unreported,
           NEW ok \in BOOLEAN, Goto(c, pc, ok)
    PROVE  IInv'
<1> DEFINE new == [call[c] EXCEPT !.pc = pc, !.ok = ok]
<1>1. call[c] \in CallRecords
  BY DEF IInv, TypeOK, CallRecords
<1>2. new \in CallRecords /\ new.pc = pc /\ new.host = call[c].host
  BY <1>1 DEF CallRecords, Unreported
<1>3. call' = [call EXCEPT ![c] = new] /\ UNCHANGED <<config, health, stored, toWarm, alone>>
  BY DEF Goto, IInv, TypeOK
<1> HIDE DEF new
<1> QED  BY <1>2, <1>3, MovesInv

LEMMA StoreConnectingInv ==
    ASSUME IInv, NEW c \in Tasks, StoreConnecting(c)
    PROVE  IInv'
<1> DEFINE new == [call[c] EXCEPT !.pc = "initialize", !.row = NotChecked]
<1>1. call[c].pc = "storeConnecting" /\ call[c] \in CallRecords
  BY DEF StoreConnecting, Store, IInv, TypeOK, CallRecords
<1>2. new \in CallRecords /\ new.pc = "initialize" /\ new.host = call[c].host
  BY <1>1, NoCallType DEF CallRecords
<1>3. /\ call' = [call EXCEPT ![c] = new] /\ UNCHANGED <<config, health, toWarm>>
      /\ \/ stored' = [stored EXCEPT ![call[c].host] = call[c].row] /\ UNCHANGED alone
         \/ alone' = alone \ {call[c].host} /\ UNCHANGED stored
  BY DEF StoreConnecting, Store, IInv, TypeOK
<1> HIDE DEF new
<1> QED  BY <1>1, <1>2, <1>3, MovesInv DEF Unreported

LEMMA StartInv == IInv /\ Start => IInv'
<1> SUFFICES ASSUME IInv, Start PROVE IInv'
  OBVIOUS
<1>1. PICK o \in inputs : Loads(o) /\ hosts' = SshHosts(Load(o))
  BY DEF Start
<1>2. hosts' \subseteq HostIds /\ toWarm' = hosts' /\ inputs' = {}
  BY <1>1, RegistryAssumption DEF Start, IInv, Places
<1>3. hosts = {} => \A c \in Tasks : call[c].pc = "idle"
  BY DEF IInv, Places
<1>4. hosts = {}
  BY <1>1 DEF IInv, Places
<1>5. TypeOK'
  BY <1>2 DEF Start, IInv, TypeOK
<1>6. Places'
  BY <1>2, <1>3, <1>4 DEF Start, Places
<1>7. Connecting' /\ OneCall'
  BY DEF Start, IInv, Connecting, OneCall, InFlight
<1> QED  BY <1>5, <1>6, <1>7 DEF IInv

LEMMA RestartInv == IInv /\ Restart => IInv'
<1> SUFFICES ASSUME IInv, Restart PROVE IInv'
  OBVIOUS
<1>1. TypeOK'
  BY NoCallType, RegistryAssumption DEF Restart, IInv, TypeOK, CallRecords
<1>2. Places'
  BY DEF Restart, IInv, Places, NoCall
<1>3. Connecting' /\ OneCall'
  BY DEF Restart, Connecting, OneCall, NotChecked
<1> QED  BY <1>1, <1>2, <1>3 DEF IInv

LEMMA Invariance == Spec => []IInv
<1>1. IInv /\ [Next]_vars => IInv'
  <2> SUFFICES ASSUME IInv, [Next]_vars PROVE IInv'
    OBVIOUS
  <2>1. ASSUME NEW c \in Callers, NEW h \in HostIds, CallTool(c, h) PROVE IInv'
    BY <2>1, BeginInv DEF CallTool, Tasks
  <2>2. CASE WarmupNext
    <3>1. PICK h \in toWarm : Begin(Warmup, h) /\ toWarm' = toWarm \ {h}
      BY <2>2 DEF WarmupNext
    <3>2. h \in hosts /\ Warmup \in Tasks
      BY DEF IInv, TypeOK, Tasks
    <3> QED  BY <2>2, <3>1, <3>2, BeginInv DEF WarmupNext
  <2>3. ASSUME NEW c \in Tasks, Proceed(c) PROVE IInv'
    <3>1. call[c].ok \in BOOLEAN
      BY DEF IInv, TypeOK
    <3>2. CASE Fails(c) \/ SshExits(c)
      BY <3>1, <3>2, GotoInv DEF Fails, SshExits, Unreported
    <3> QED  BY <2>3, <3>2, StoreConnectingInv, ReportInv, StoreOutcomeInv DEF Proceed
  <2>4. ASSUME NEW c \in Tasks, Initialized(c) \/ \E ok \in BOOLEAN : Answered(c, ok) PROVE IInv'
    BY <2>4, GotoInv DEF Initialized, Answered, Unreported
  <2>5. CASE UNCHANGED vars
    BY <2>5 DEF vars, config, IInv, TypeOK, Places, Connecting, OneCall, InFlight
  <2> QED  BY <2>1, <2>2, <2>3, <2>4, <2>5, StartInv, RestartInv DEF Next
<1> QED  BY InitInv, <1>1, PTL DEF Spec

\* The registry and the store know configured hosts only, and a call has one.
THEOREM TypeCorrect == Spec => []TypeOK
<1>1. IInv => TypeOK
  BY DEF IInv
<1> QED  BY <1>1, Invariance, PTL

\* A host is listed as being checked only while a call checks it, whichever
\* step of which call fails, and however calls overlap.
THEOREM CheckingEnds == Spec => []CheckingIsACall
<1>1. IInv => CheckingIsACall
  <2> SUFFICES ASSUME IInv, NEW h \in hosts, HostStatus(h) = "checking" PROVE InFlight(h) # {}
    BY DEF CheckingIsACall
  <2>1. h \in HostIds /\ health[h].state \in {"not_checked", "connecting", "available", "unavailable"}
    BY DEF IInv, TypeOK, Health
  <2>2. health[h].state = "connecting"
    BY <2>1 DEF HostStatus
  <2> QED  BY <2>1, <2>2 DEF IInv, Connecting, InFlight, Unreported
<1> QED  BY <1>1, Invariance, PTL

\* The stored row is what the registry knows when the last call to the host is
\* over, if that call overlapped no other and was stored.
THEOREM StatusSettles == Spec => []StatusAgrees
<1>1. IInv => StatusAgrees
  BY DEF IInv, OneCall, StatusAgrees
<1> QED  BY <1>1, Invariance, PTL
-----------------------------------------------------------------------------
(* Configuration: what its operators do to one field.                        *)

\* The first of two layers, and of five, that says something.
LEMMA FirstOfTwo ==
    ASSUME NEW a, NEW b
    PROVE  First(<<a, b>>) = IF a # Unset THEN a ELSE b
<1> DEFINE layers == <<a, b>>
           P(i) == layers[i] # Unset /\ \A j \in 1 .. i - 1 : layers[j] = Unset
<1>1. DOMAIN layers = 1 .. 2 /\ layers[1] = a /\ layers[2] = b
  OBVIOUS
<1>2. CASE a = Unset /\ b = Unset
  <2>1. \A i \in DOMAIN layers : layers[i] = Unset
    BY <1>1, <1>2
  <2> HIDE DEF layers
  <2>2. First(layers) = Unset
    BY <2>1 DEF First
  <2> QED  BY <1>2, <2>2 DEF layers
<1>3. ASSUME NEW k \in 1 .. 2, P(k) PROVE First(layers) = layers[k]
  <2>1. k \in DOMAIN layers /\ layers[k] # Unset
    BY <1>1, <1>3
  <2> HIDE DEF layers
  <2>2. \A i \in DOMAIN layers : P(i) => i = k
    BY <1>1, <1>3
  <2>3. (CHOOSE i \in DOMAIN layers : P(i)) = k
    BY <1>3, <2>1, <2>2
  <2> QED  BY <2>1, <2>3 DEF First
<1>4. CASE a # Unset
  <2>1. P(1)
    BY <1>1, <1>4
  <2>2. First(layers) = layers[1]
    BY <1>3, <2>1
  <2> QED  BY <1>1, <1>4, <2>2
<1>5. CASE a = Unset /\ b # Unset
  <2>1. P(2)
    BY <1>1, <1>5
  <2>2. First(layers) = layers[2]
    BY <1>3, <2>1
  <2> QED  BY <1>1, <1>5, <2>2
<1> QED  BY <1>2, <1>4, <1>5

LEMMA FirstOfFive ==
    ASSUME NEW a, NEW b, NEW c, NEW d, NEW e
    PROVE  First(<<a, b, c, d, e>>) =
             IF a # Unset THEN a ELSE IF b # Unset THEN b ELSE IF c # Unset THEN c
             ELSE IF d # Unset THEN d ELSE e
<1> DEFINE layers == <<a, b, c, d, e>>
           P(i) == layers[i] # Unset /\ \A j \in 1 .. i - 1 : layers[j] = Unset
<1>1. /\ DOMAIN layers = 1 .. 5 /\ layers[1] = a /\ layers[2] = b /\ layers[3] = c
      /\ layers[4] = d /\ layers[5] = e
  OBVIOUS
<1> HIDE DEF layers
<1>2. CASE \A i \in 1 .. 5 : layers[i] = Unset
  <2>1. First(layers) = Unset
    BY <1>1, <1>2 DEF First
  <2> QED  BY <1>1, <1>2, <2>1 DEF layers
<1>3. ASSUME NEW k \in 1 .. 5, P(k) PROVE First(layers) = layers[k]
  <2>1. k \in DOMAIN layers /\ layers[k] # Unset
    BY <1>1, <1>3
  <2>2. \A i \in DOMAIN layers : P(i) => i = k
    BY <1>1, <1>3
  <2>3. (CHOOSE i \in DOMAIN layers : P(i)) = k
    BY <1>3, <2>1, <2>2
  <2> QED  BY <2>1, <2>3 DEF First
<1>4. PICK k \in 1 .. 6 : /\ k = 6 \/ layers[k] # Unset
                          /\ \A j \in 1 .. k - 1 : layers[j] = Unset
  <2>1. CASE layers[1] # Unset
    BY <2>1
  <2>2. CASE layers[1] = Unset /\ layers[2] # Unset
    <3>1. \A j \in 1 .. 2 - 1 : j = 1
      OBVIOUS
    <3> QED  BY <2>2, <3>1
  <2>3. CASE layers[1] = Unset /\ layers[2] = Unset /\ layers[3] # Unset
    <3>1. \A j \in 1 .. 3 - 1 : j = 1 \/ j = 2
      OBVIOUS
    <3> QED  BY <2>3, <3>1
  <2>4. CASE layers[1] = Unset /\ layers[2] = Unset /\ layers[3] = Unset /\ layers[4] # Unset
    <3>1. \A j \in 1 .. 4 - 1 : j = 1 \/ j = 2 \/ j = 3
      OBVIOUS
    <3> QED  BY <2>4, <3>1
  <2>5. CASE layers[1] = Unset /\ layers[2] = Unset /\ layers[3] = Unset /\ layers[4] = Unset
    <3>1. \A j \in 1 .. 5 - 1 : j = 1 \/ j = 2 \/ j = 3 \/ j = 4
      OBVIOUS
    <3>2. \A j \in 1 .. 6 - 1 : j = 1 \/ j = 2 \/ j = 3 \/ j = 4 \/ j = 5
      OBVIOUS
    <3>3. CASE layers[5] # Unset
      BY <2>5, <3>1, <3>3
    <3>4. CASE layers[5] = Unset
      BY <2>5, <3>2, <3>4
    <3> QED  BY <3>3, <3>4
  <2> QED  BY <2>1, <2>2, <2>3, <2>4, <2>5
<1>5. k = 6 => \A i \in 1 .. 5 : layers[i] = Unset
  BY <1>4
<1>6. k # 6 => First(layers) = layers[k]
  BY <1>3, <1>4
<1>7. k \in {1, 2, 3, 4, 5, 6}
  BY <1>4
<1>8. /\ k > 1 => a = Unset
      /\ k > 2 => b = Unset
      /\ k > 3 => c = Unset
      /\ k > 4 => d = Unset
  BY <1>1, <1>4
<1> QED  BY <1>1, <1>2, <1>4, <1>5, <1>6, <1>7, <1>8 DEF layers

LEMMA FieldNames ==
    /\ DOMAIN Builtin = {"backend", "mode", "default_host", "permissions", "state_dir", "database"}
    /\ DOMAIN Nothing = DOMAIN Builtin
    /\ \A f \in DOMAIN Builtin : Nothing[f] = Unset
    /\ Builtin.state_dir = <<"~", ".singleton">>
BY DEF Builtin, Nothing

LEMMA MergeField ==
    ASSUME NEW self, NEW other, NEW f \in DOMAIN self
    PROVE  /\ DOMAIN Merge(self, other) = DOMAIN self
           /\ Merge(self, other)[f] = IF other[f] # Unset THEN other[f] ELSE self[f]
BY FirstOfTwo DEF Merge

\* The profiles known after a document, and what they say.
LEMMA ProfilesAfter ==
    ASSUME NEW merged, NEW doc, NEW p \in DOMAIN MergeDocument(merged, doc).profiles,
           \A q \in DOMAIN merged.profiles : DOMAIN merged.profiles[q] = DOMAIN Builtin
    PROVE  /\ DOMAIN MergeDocument(merged, doc).profiles[p] = DOMAIN Builtin
           /\ \A f \in DOMAIN Builtin :
                MergeDocument(merged, doc).profiles[p][f] =
                    IF PatchOf(doc, p)[f] # Unset THEN PatchOf(doc, p)[f]
                    ELSE IF p \in DOMAIN merged.profiles THEN merged.profiles[p][f] ELSE Unset
<1> DEFINE after == MergeDocument(merged, doc).profiles
<1>1. CASE doc = NoDoc
  <2>1. after = merged.profiles
    BY <1>1 DEF MergeDocument
  <2> QED  BY <1>1, <2>1, FieldNames DEF PatchOf
<1>2. CASE doc # NoDoc
  <2>1. after = MergeAll(merged.profiles, doc.profiles, Nothing)
    BY <1>2 DEF MergeDocument
  <2>2. CASE p \notin DOMAIN doc.profiles
    <3>1. p \in DOMAIN merged.profiles /\ after[p] = merged.profiles[p]
      BY <2>1, <2>2 DEF MergeAll
    <3>2. PatchOf(doc, p) = Nothing
      BY <1>2, <2>2 DEF PatchOf
    <3> QED  BY <3>1, <3>2, FieldNames
  <2>3. CASE p \in DOMAIN doc.profiles
    <3> DEFINE self == IF p \in DOMAIN merged.profiles THEN merged.profiles[p] ELSE Nothing
    <3>1. after[p] = Merge(self, doc.profiles[p])
      BY <2>1, <2>3 DEF MergeAll
    <3>2. DOMAIN self = DOMAIN Builtin
      BY FieldNames
    <3>3. PatchOf(doc, p) = doc.profiles[p]
      BY <1>2, <2>3 DEF PatchOf
    <3>4. \A f \in DOMAIN Builtin :
              p \notin DOMAIN merged.profiles => self[f] = Unset
      BY FieldNames
    <3>5. p \in DOMAIN merged.profiles => self = merged.profiles[p]
      OBVIOUS
    <3> HIDE DEF self
    <3>6. /\ DOMAIN Merge(self, doc.profiles[p]) = DOMAIN Builtin
          /\ \A f \in DOMAIN Builtin : Merge(self, doc.profiles[p])[f] =
                 IF doc.profiles[p][f] # Unset THEN doc.profiles[p][f] ELSE self[f]
      <4>1. "mode" \in DOMAIN self
        BY <3>2, FieldNames
      <4>2. DOMAIN Merge(self, doc.profiles[p]) = DOMAIN self
        BY <4>1, MergeField
      <4>3. \A f \in DOMAIN self : Merge(self, doc.profiles[p])[f] =
                IF doc.profiles[p][f] # Unset THEN doc.profiles[p][f] ELSE self[f]
        BY MergeField
      <4> QED  BY <3>2, <4>2, <4>3
    <3> QED  BY <3>1, <3>3, <3>4, <3>5, <3>6
  <2> QED  BY <2>2, <2>3
<1> QED  BY <1>1, <1>2

LEMMA ProfileNames ==
    ASSUME NEW merged, NEW doc, NEW p
    PROVE  p \in DOMAIN MergeDocument(merged, doc).profiles <=>
             p \in DOMAIN merged.profiles \/ (doc # NoDoc /\ p \in DOMAIN doc.profiles)
<1>1. CASE doc = NoDoc
  BY <1>1 DEF MergeDocument
<1>2. CASE doc # NoDoc
  <2>1. MergeDocument(merged, doc).profiles = MergeAll(merged.profiles, doc.profiles, Nothing)
    BY <1>2 DEF MergeDocument
  <2> QED  BY <1>2, <2>1 DEF MergeAll
<1> QED  BY <1>1, <1>2

\* The selected profile: the project's word, the user's, or the built-in one.
LEMMA ProfileField ==
    ASSUME NEW o, Selected(o, Merged(o)) \in DOMAIN Merged(o).profiles, NEW f \in DOMAIN Builtin
    PROVE  LET p == Selected(o, Merged(o)) IN
           /\ DOMAIN Profile(o, Merged(o)) = DOMAIN Builtin
           /\ Profile(o, Merged(o))[f] =
                IF PatchOf(ProjectDocument(o), p)[f] # Unset THEN PatchOf(ProjectDocument(o), p)[f]
                ELSE IF PatchOf(UserDocument(o), p)[f] # Unset THEN PatchOf(UserDocument(o), p)[f]
                ELSE Builtin[f]
<1> DEFINE p == Selected(o, Merged(o))
           U == UserDocument(o)
           P == ProjectDocument(o)
           one == MergeDocument(Synthetic, U)
           two == MergeDocument(one, P)
<1>1. DOMAIN Synthetic.profiles = {"default"} /\ Synthetic.profiles["default"] = Builtin
  BY DEF Synthetic
<1>2. \A q \in DOMAIN Synthetic.profiles : DOMAIN Synthetic.profiles[q] = DOMAIN Builtin
  BY <1>1
<1>3. Merged(o) = two /\ p \in DOMAIN two.profiles
  BY DEF Merged
<1> HIDE DEF p, U, P
<1>4. \A q \in DOMAIN one.profiles :
         /\ DOMAIN one.profiles[q] = DOMAIN Builtin
         /\ one.profiles[q][f] = IF PatchOf(U, q)[f] # Unset THEN PatchOf(U, q)[f]
                                 ELSE IF q = "default" THEN Builtin[f] ELSE Unset
  BY <1>1, <1>2, ProfilesAfter
<1>5. p \notin DOMAIN one.profiles => PatchOf(U, p)[f] = Unset
  BY ProfileNames, FieldNames DEF PatchOf
<1> HIDE DEF one
<1>6. two.profiles[p][f] = IF PatchOf(P, p)[f] # Unset THEN PatchOf(P, p)[f]
                           ELSE IF p \in DOMAIN one.profiles THEN one.profiles[p][f] ELSE Unset
  BY <1>3, <1>4, ProfilesAfter
<1>7. /\ DOMAIN Profile(o, Merged(o)) = DOMAIN Builtin
      /\ Profile(o, Merged(o))[f] = IF two.profiles[p][f] # Unset THEN two.profiles[p][f]
                                    ELSE Builtin[f]
  BY <1>3, MergeField DEF Profile, p
<1> QED  BY <1>4, <1>5, <1>6, <1>7 DEF p, U, P
\* The strongest layer that says something, field by field.
LEMMA StrongestField ==
    ASSUME NEW o, Loads(o), NEW f \in DOMAIN Builtin
    PROVE  LET profile == Profile(o, Merged(o)) IN
           /\ DOMAIN profile = DOMAIN Builtin
           /\ Strongest(o, Selected(o, Merged(o)), f)
                = IF o.cli[f] # Unset THEN o.cli[f]
                  ELSE IF o.env.fields[f] # Unset THEN o.env.fields[f] ELSE profile[f]
<1>1. Selected(o, Merged(o)) \in DOMAIN Merged(o).profiles
  BY DEF Loads
<1> QED  BY <1>1, ProfileField, FirstOfFive DEF Strongest

LEMMA LoadedSettings ==
    ASSUME NEW o, Loads(o)
    PROVE  LET profile == Profile(o, Merged(o)) IN
           /\ Load(o).settings = [f \in DOMAIN Builtin |-> Load(o).settings[f]]
           /\ Load(o).settings.database = Database(o, profile)
           /\ Load(o).settings.state_dir = StateDir(o, profile)
           /\ \A f \in DOMAIN Builtin \ {"database", "state_dir"} :
                Load(o).settings[f] = Strongest(o, Selected(o, Merged(o)), f)
<1> DEFINE profile == Profile(o, Merged(o))
           env == Merge(profile, o.env.fields)
           all == Merge(env, o.cli)
<1>1. "mode" \in DOMAIN Builtin /\ "database" \in DOMAIN Builtin /\ "state_dir" \in DOMAIN Builtin
  BY FieldNames
<1>2. DOMAIN profile = DOMAIN Builtin
  BY <1>1, StrongestField
<1> HIDE DEF profile
<1>3. /\ DOMAIN env = DOMAIN Builtin
      /\ \A f \in DOMAIN Builtin :
           env[f] = IF o.env.fields[f] # Unset THEN o.env.fields[f] ELSE profile[f]
  <2>1. ASSUME NEW f \in DOMAIN profile
        PROVE  /\ DOMAIN env = DOMAIN profile
               /\ env[f] = IF o.env.fields[f] # Unset THEN o.env.fields[f] ELSE profile[f]
    BY MergeField
  <2> HIDE DEF env
  <2> QED  BY <1>1, <1>2, <2>1
<1> HIDE DEF env
<1>4. /\ DOMAIN all = DOMAIN Builtin
      /\ \A f \in DOMAIN Builtin : all[f] = IF o.cli[f] # Unset THEN o.cli[f] ELSE env[f]
  BY <1>1, <1>3, MergeField
<1>5. \A f \in DOMAIN Builtin : all[f] = Strongest(o, Selected(o, Merged(o)), f)
  BY <1>3, <1>4, StrongestField DEF profile
<1>6. Load(o).settings = [all EXCEPT !.database = Database(o, profile),
                                     !.state_dir = StateDir(o, profile)]
  BY DEF Load, profile, env
<1> HIDE DEF all
<1> QED  BY <1>1, <1>4, <1>5, <1>6 DEF profile

LEMMA LoadLayers == ASSUME NEW o, Loads(o) PROVE LayeredAs(o, Load(o))
<1> DEFINE profile == Profile(o, Merged(o))
           sel == Selected(o, Merged(o))
           home == o.env.home
<1>1. Load(o).profile = sel
  BY DEF Load
<1>2. /\ Database(o, profile) # Unset /\ StateDir(o, profile) # Unset
  BY DEF Loads
<1> SUFFICES ASSUME NEW f \in DOMAIN Builtin
             PROVE  Load(o).settings[f] =
                      IF f \notin {"database", "state_dir"} THEN Strongest(o, sel, f)
                      ELSE IF f = "state_dir" /\ Strongest(o, sel, f) = Builtin[f] /\ home = <<>>
                      THEN Front(Load(o).settings.database)
                      ELSE Expand(Strongest(o, sel, f), home)
  BY <1>1 DEF LayeredAs
<1>3. CASE f \notin {"database", "state_dir"}
  BY <1>3, LoadedSettings
<1>4. Overridden(o, f) = IF o.cli[f] # Unset THEN o.cli[f] ELSE o.env.fields[f]
  BY FirstOfTwo DEF Overridden
<1>5. /\ Overridden(o, f) # Unset => Strongest(o, sel, f) = Overridden(o, f)
      /\ Overridden(o, f) = Unset => Strongest(o, sel, f) = profile[f]
  BY <1>4, StrongestField
<1>6. CASE f = "database"
  <2>1. Database(o, profile) = Expand(First(<<Overridden(o, f), profile[f]>>), home)
    BY <1>6 DEF Database
  <2>2. First(<<Overridden(o, f), profile[f]>>) = Strongest(o, sel, f)
    BY <1>5, FirstOfTwo
  <2> QED  BY <1>6, <2>1, <2>2, LoadedSettings
<1>7. CASE f = "state_dir"
  <2>1. Load(o).settings[f] = StateDir(o, profile) /\ Load(o).settings.database = Database(o, profile)
    BY <1>7, LoadedSettings
  <2>2. CASE Overridden(o, f) # Unset
    <3>1. StateDir(o, profile) = Expand(Strongest(o, sel, f), home)
      BY <1>5, <1>7, <2>2 DEF StateDir
    <3>2. ~(Strongest(o, sel, f) = Builtin[f] /\ home = <<>>)
      <4>1. Head(<<"~", ".singleton">>) = "~"
        OBVIOUS
      <4> QED  BY <1>2, <1>7, <3>1, <4>1, FieldNames DEF Expand
    <3> QED  BY <1>7, <2>1, <3>1, <3>2
  <2>3. CASE Overridden(o, f) = Unset
    BY <1>5, <1>7, <2>1, <2>3 DEF StateDir
  <2> QED  BY <2>2, <2>3
<1> QED  BY <1>3, <1>6, <1>7

\* The project's hosts are plain, and it cannot change another one.
LEMMA LoadKeepsPlain == ASSUME NEW o, Loads(o) PROVE PlainOrTheUsers(o, Load(o))
<1> DEFINE U == MergeDocument(Synthetic, UserDocument(o))
           P == ProjectDocument(o)
           merged == MergeDocument(U, P)
<1>1. Merged(o) = merged /\ ValidProject(P, merged)
  BY DEF Merged, Loads
<1>2. /\ DOMAIN Load(o).hosts = DOMAIN merged.hosts
      /\ \A h \in DOMAIN merged.hosts : Load(o).hosts[h] = ResolveHost(merged.hosts[h])
  BY <1>1 DEF Load
<1> HIDE DEF U, P
<1> SUFFICES ASSUME NEW h \in DOMAIN merged.hosts, ResolveHost(merged.hosts[h]).kind = "ssh"
             PROVE  LET host == ResolveHost(merged.hosts[h]) IN
                    \/ host.connect_command = DefaultConnect /\ host.ssh_args = <<>>
                    \/ host = ResolveHost(U.hosts[h])
  BY <1>2 DEF PlainOrTheUsers, SshHosts, U
<1>3. CASE P = NoDoc
  BY <1>3 DEF MergeDocument
<1>4. CASE P # NoDoc /\ h \notin DOMAIN P.hosts
  <2>1. merged.hosts = MergeAll(U.hosts, P.hosts, NoHost)
    BY <1>4 DEF MergeDocument
  <2>2. merged.hosts[h] = U.hosts[h]
    BY <1>4, <2>1 DEF MergeAll
  <2> QED  BY <2>2
<1>5. CASE P # NoDoc /\ h \in DOMAIN P.hosts
  <2> DEFINE host == merged.hosts[h]
  <2>1. /\ host.connect_command \in {Unset, DefaultConnect}
        /\ host.ssh_args \in {Unset, <<>>}
    BY <1>1, <1>5 DEF ValidProject, PlainConnect
  <2> HIDE DEF host
  <2>2. host.kind # "local"
    BY DEF ResolveHost, host
  <2>3. /\ ResolveHost(host).connect_command = First(<<host.connect_command, DefaultConnect>>)
        /\ ResolveHost(host).ssh_args = First(<<host.ssh_args, <<>>>>)
    BY <2>2 DEF ResolveHost
  <2>4. /\ First(<<host.connect_command, DefaultConnect>>) = DefaultConnect
        /\ First(<<host.ssh_args, <<>>>>) = <<>>
    BY <2>1, FirstOfTwo
  <2> QED  BY <2>3, <2>4 DEF host
<1> QED  BY <1>3, <1>4, <1>5

\* Paths of the parts that files can name, the built-in ones among them.
Parts == STRING \cup {"~", ".singleton", "singleton.db"}
PartPaths == Seq(Parts) \ {<< >>}

LEMMA PathsHaveParts == Seq(STRING) \subseteq Seq(Parts) /\ Builtin.database \in PartPaths
<1>1. ASSUME NEW s \in Seq(STRING) PROVE s \in Seq(Parts)
  BY DEF Parts
<1>2. \A a, b, c \in Parts : <<a, b, c>> \in Seq(Parts) /\ <<a, b, c>> # << >>
  OBVIOUS
<1>3. "~" \in Parts /\ ".singleton" \in Parts /\ "singleton.db" \in Parts
  BY DEF Parts
<1>4. Builtin.database = <<"~", ".singleton", "singleton.db">>
  BY DEF Builtin
<1> QED  BY <1>1, <1>2, <1>3, <1>4 DEF PartPaths

\* What a path names does not change when it is handed on and expanded again.
LEMMA ExpandAgain ==
    ASSUME NEW dir \in PartPaths, NEW home \in Seq(STRING), home # <<>> => Head(home) # "~",
           Expand(dir, home) # Unset
    PROVE  Expand(Expand(dir, home), home) = Expand(dir, home)
<1>1. CASE Head(dir) # "~"
  BY <1>1 DEF Expand
<1>2. CASE Head(dir) = "~"
  <2>1. home # <<>> /\ Expand(dir, home) = home \o Tail(dir)
    BY <1>2 DEF Expand
  <2>2. Tail(dir) \in Seq(Parts) /\ home \in Seq(Parts)
    BY PathsHaveParts DEF PartPaths
  <2>3. Head(home \o Tail(dir)) = Head(home)
    BY <2>1, <2>2
  <2> QED  BY <2>1, <2>3 DEF Expand
<1> QED  BY <1>1, <1>2

\* The database that a process settles on was given as a path.
LEMMA DatabaseIsGiven ==
    ASSUME NEW o, Findable(o), Loads(o)
    PROVE  First(<<Overridden(o, "database"), Profile(o, Merged(o)).database>>) \in PartPaths
<1> DEFINE p == Selected(o, Merged(o))
<1>1. ASSUME NEW doc \in {UserDocument(o), ProjectDocument(o)}
      PROVE  PatchOf(doc, p).database \in Paths \cup {Unset}
  <2>1. doc = NoDoc \/ doc \in {o.config, o.user, o.project} \ {NoDoc}
    BY DEF UserDocument, ProjectDocument
  <2>2. "database" \in DOMAIN Builtin /\ Nothing.database = Unset
    BY FieldNames
  <2> QED  BY <2>1, <2>2 DEF PatchOf, Findable
<1>2. Builtin.database \in PartPaths /\ Paths \subseteq PartPaths
  BY PathsHaveParts DEF Paths, PartPaths
<1>3. /\ p \in DOMAIN Merged(o).profiles
      /\ "database" \in DOMAIN Builtin
  BY FieldNames DEF Loads
<1>4. Profile(o, Merged(o)).database \in PartPaths
  BY <1>1, <1>2, <1>3, ProfileField
<1>5. Overridden(o, "database") \in Paths \cup {Unset}
  BY FirstOfTwo DEF Overridden, Findable
<1> QED  BY <1>2, <1>4, <1>5, FirstOfTwo

\* A server that is given the backend, and the database unless that is the
\* default one anyway, loads what the process that wrote its flags loaded.
LEMMA ServerLoadsAlike ==
    ASSUME NEW o, Findable(o), Loads(o), NEW database,
           \/ database = Load(o).settings.database
           \/ database = Unset /\ o.cli.database = Unset /\ o.env.home # <<>>
    PROVE  LET next == [o EXCEPT !.cli = [Nothing EXCEPT !.backend = Load(o).settings.backend,
                                                         !.database = database]]
           IN  Loads(next) /\ Load(next) = Load(o)
<1> DEFINE cli == [Nothing EXCEPT !.backend = Load(o).settings.backend, !.database = database]
           next == [o EXCEPT !.cli = cli]
           profile == Profile(o, Merged(o))
           sel == Selected(o, Merged(o))
           given == Database(o, profile)
<1>1. /\ cli.backend = Load(o).settings.backend /\ cli.database = database
      /\ \A f \in DOMAIN Builtin \ {"backend", "database"} : cli[f] = Unset
  BY FieldNames
<1> HIDE DEF cli
<1>2. /\ next.cli = cli /\ next.config = o.config /\ next.profile = o.profile
      /\ next.noProject = o.noProject /\ next.env = o.env /\ next.user = o.user
      /\ next.project = o.project
  BY DEF Findable
<1> HIDE DEF next
<1>3. /\ UserDocument(next) = UserDocument(o) /\ ProjectDocument(next) = ProjectDocument(o)
      /\ Merged(next) = Merged(o)
  BY <1>2 DEF UserDocument, ProjectDocument, Merged
<1>4. Selected(next, Merged(next)) = sel /\ Profile(next, Merged(next)) = profile
  BY <1>2, <1>3 DEF Selected, Profile
<1>5. /\ Load(o).settings.database = given /\ given # Unset
      /\ StateDir(o, profile) # Unset
  BY LoadedSettings DEF Loads
<1>6. \A f \in DOMAIN Builtin : /\ Overridden(o, f) = IF o.cli[f] # Unset THEN o.cli[f]
                                                      ELSE o.env.fields[f]
                                /\ Overridden(next, f) = IF cli[f] # Unset THEN cli[f]
                                                         ELSE o.env.fields[f]
  BY <1>2, FirstOfTwo DEF Overridden
<1>7. {"backend", "mode", "default_host", "permissions", "state_dir", "database"} = DOMAIN Builtin
  BY FieldNames
<1>8. \A f \in DOMAIN Builtin \ {"backend", "database"} : o.cli[f] = Unset
  BY DEF Findable
<1>9. Database(next, profile) = given
  <2> DEFINE path == First(<<Overridden(o, "database"), profile.database>>)
  <2>1. given = Expand(path, o.env.home) /\ path \in PartPaths
    BY DatabaseIsGiven DEF Database
  <2>2. CASE database = given
    <3>1. First(<<Overridden(next, "database"), profile.database>>) = given
      BY <1>1, <1>5, <1>6, <1>7, <2>2, FirstOfTwo
    <3>2. Database(next, profile) = Expand(given, o.env.home)
      BY <1>2, <3>1 DEF Database
    <3> HIDE DEF path, given
    <3>3. Expand(Expand(path, o.env.home), o.env.home) = Expand(path, o.env.home)
      BY <1>5, <2>1, ExpandAgain DEF Findable
    <3> QED  BY <2>1, <3>2, <3>3
  <2>3. CASE database = Unset /\ o.cli.database = Unset
    <3>1. Overridden(next, "database") = Overridden(o, "database")
      BY <1>1, <1>6, <1>7, <2>3
    <3> QED  BY <1>2, <3>1 DEF Database
  <2> QED  BY <1>5, <2>2, <2>3
<1>10. StateDir(next, profile) = StateDir(o, profile)
  <2>1. Overridden(next, "state_dir") = Overridden(o, "state_dir")
    BY <1>1, <1>6, <1>7, <1>8
  <2> QED  BY <1>2, <1>9, <2>1 DEF StateDir
<1>11. Loads(next)
  <2>1. UserConfigFound(next)
    <3>1. CASE o.env.home # <<>>
      BY <1>2, <3>1 DEF UserConfigFound
    <3>2. CASE o.env.home = <<>>
      <4>1. Overridden(next, "database") # Unset
        BY <1>1, <1>5, <1>6, <1>7, <3>2
      <4> QED  BY <4>1 DEF UserConfigFound
    <3> QED  BY <3>1, <3>2
  <2>2. next.cli.default_host = Unset /\ next.cli.mode = Unset
    BY <1>1, <1>2, <1>7
  <2>3. ValidMode(next.cli.mode)
    BY <2>2 DEF ValidMode
  <2> HIDE DEF profile, given
  <2> QED  BY <1>2, <1>3, <1>4, <1>5, <1>9, <1>10, <2>1, <2>2, <2>3 DEF Loads, profile, given
<1>12. Load(next).settings = Load(o).settings
  <2>1. ASSUME NEW f \in DOMAIN Builtin \ {"database", "state_dir"}
        PROVE  Strongest(next, sel, f) = Strongest(o, sel, f)
    <3>1. Strongest(o, sel, f) = IF o.cli[f] # Unset THEN o.cli[f]
                                 ELSE IF o.env.fields[f] # Unset THEN o.env.fields[f]
                                 ELSE profile[f]
      BY StrongestField
    <3>2. Strongest(next, sel, f) = IF cli[f] # Unset THEN cli[f]
                                    ELSE IF o.env.fields[f] # Unset THEN o.env.fields[f]
                                    ELSE profile[f]
      BY <1>2, <1>4, <1>11, StrongestField
    <3>3. CASE f = "backend"
      <4>1. cli[f] = Strongest(o, sel, f)
        BY <1>1, <3>3, LoadedSettings
      <4> QED  BY <3>1, <3>2, <4>1
    <3>4. CASE f # "backend"
      BY <1>1, <1>8, <3>1, <3>2, <3>4
    <3> QED  BY <3>3, <3>4
  <2>2. ASSUME NEW f \in DOMAIN Builtin PROVE Load(next).settings[f] = Load(o).settings[f]
    <3>1. /\ Load(o).settings.database = given
          /\ Load(o).settings.state_dir = StateDir(o, profile)
          /\ f \notin {"database", "state_dir"} => Load(o).settings[f] = Strongest(o, sel, f)
      BY LoadedSettings
    <3>2. /\ Load(next).settings.database = Database(next, profile)
          /\ Load(next).settings.state_dir = StateDir(next, profile)
          /\ f \notin {"database", "state_dir"} => Load(next).settings[f] = Strongest(next, sel, f)
      BY <1>4, <1>11, LoadedSettings
    <3> HIDE DEF profile, given, sel
    <3> QED  BY <1>9, <1>10, <2>1, <3>1, <3>2
  <2>3. /\ Load(o).settings = [f \in DOMAIN Builtin |-> Load(o).settings[f]]
        /\ Load(next).settings = [f \in DOMAIN Builtin |-> Load(next).settings[f]]
    BY <1>11, LoadedSettings
  <2> QED  BY <2>2, <2>3
<1>13. Load(next) = Load(o)
  <2>1. Load(o) = [settings |-> Load(o).settings, profile |-> sel,
                   hosts |-> [h \in DOMAIN Merged(o).hosts |-> ResolveHost(Merged(o).hosts[h])]]
    BY DEF Load
  <2>2. Load(next) = [settings |-> Load(next).settings, profile |-> sel,
                      hosts |-> [h \in DOMAIN Merged(o).hosts |-> ResolveHost(Merged(o).hosts[h])]]
    BY <1>3, <1>4 DEF Load
  <2> QED  BY <1>12, <2>1, <2>2
<1> QED  BY <1>11, <1>13 DEF next, cli

LEMMA LoadIsServedAlike ==
    ASSUME NEW o, Findable(o), Loads(o)
    PROVE  ServedAlike(o, Load(o))
<1> DEFINE settings == Load(o).settings
           With(database) ==
             [o EXCEPT !.cli = [Nothing EXCEPT !.backend = settings.backend,
                                               !.database = database]]
<1>1. DaemonOptions(o) = With(settings.database)
  BY DEF DaemonOptions
<1>2. PICK database : /\ RegisteredOptions(o) = With(database)
                      /\ \/ database = settings.database
                         \/ /\ database = Unset /\ o.cli.database = Unset
                            /\ settings.database = Expand(Builtin.database, o.env.home)
  BY DEF RegisteredOptions
<1>3. settings.database # Unset
  BY LoadedSettings DEF Loads
<1>4. Builtin.database = <<"~", ".singleton", "singleton.db">>
  BY DEF Builtin
<1>5. Head(<<"~", ".singleton", "singleton.db">>) = "~"
  OBVIOUS
<1>6. database # settings.database => o.env.home # <<>>
  BY <1>2, <1>3, <1>4, <1>5 DEF Expand
<1>7. Loads(With(database)) /\ Load(With(database)) = Load(o)
  BY <1>2, <1>6, ServerLoadsAlike
<1>8. Loads(With(settings.database)) /\ Load(With(settings.database)) = Load(o)
  BY ServerLoadsAlike
<1> QED  BY <1>1, <1>2, <1>7, <1>8 DEF ServedAlike

\* Whatever files, variables and flags a process finds, each setting is what
\* the strongest of the documented layers says of it.
THEOREM PrecedenceHolds == Spec => []SettingsAreLayered
<1>1. IInv => SettingsAreLayered
  BY LoadLayers DEF SettingsAreLayered
<1> QED  BY <1>1, Invariance, PTL

\* No file of a project lends a command or arguments for ssh to a host that the
\* user did not give them to.
THEOREM ProjectHostsArePlain == Spec => []ProjectKeepsToPlainHosts
<1>1. IInv => ProjectKeepsToPlainHosts
  BY LoadKeepsPlain DEF ProjectKeepsToPlainHosts
<1> QED  BY <1>1, Invariance, PTL

\* A daemon or a registered server that is started with the flags written for it
\* has the settings, the store and the hosts of the process that wrote them.
THEOREM ServersServeAlike == Spec => []ServersAgree
<1>1. IInv => ServersAgree
  BY LoadIsServedAlike, RegistryAssumption DEF ServersAgree, IInv, Places
<1> QED  BY <1>1, Invariance, PTL
=============================================================================
