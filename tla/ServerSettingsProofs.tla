------------------------- MODULE ServerSettingsProofs -------------------------
(****************************************************************************)
(* The properties of ServerSettings, for any fields, values, defaults, any  *)
(* files, whatever they give or omit, and any number of reloads.            *)
(****************************************************************************)
EXTENDS ServerSettings, TLAPS

(* What no file ever gave to an Init is as New left it. *)
Kept == \A x \in Fields \ applied : settings[x] = Defaults[x]

(* What a new process would take from a file, and what it would not. *)
LEMMA AppliedFields ==
    ASSUME NEW s, NEW f, NEW x \in Fields
    PROVE  /\ x \in Gives(f) => Applied(s, f)[x] = Read(x, f.fields[x])
           /\ x \notin Gives(f) => Applied(s, f)[x] = s[x]
BY DEF Applied

(* Init leaves the server apart from a new process only in what an earlier  *)
(* file gave it.                                                            *)
LEMMA InitDrift ==
    ASSUME Kept, InitServer
    PROVE  Kept' /\ Drifted' \subseteq applied' \ Gives(file')
<1>1. /\ settings' = Applied(settings, file) /\ file' = file
      /\ applied' = applied \cup Gives(file)
  BY DEF InitServer
<1>2. ASSUME NEW x \in Fields, x \notin applied \/ x \in Gives(file)
      PROVE  settings'[x] = Applied(Defaults, file)[x]
  BY <1>1, <1>2, AppliedFields DEF Kept
<1>3. Kept'
  <2> SUFFICES ASSUME NEW x \in Fields \ applied' PROVE settings'[x] = Defaults[x]
    BY DEF Kept
  <2> QED
    BY <1>1, AppliedFields DEF Kept
<1>4. NewProcess' = Applied(Defaults, file)
  BY <1>1 DEF NewProcess
<1> QED
  BY <1>1, <1>2, <1>3, <1>4 DEF Drifted

(* A reload that changes nothing leaves them apart only in what its file no *)
(* longer gives.                                                            *)
LEMMA ReloadDrift ==
    ASSUME Kept, NEW f, ~Changed(f)
    PROVE  \A x \in Fields :
              settings[x] # Applied(Defaults, f)[x] => x \in applied \ Gives(f)
<1> SUFFICES ASSUME NEW x \in Fields, x \notin applied \/ x \in Gives(f)
             PROVE  settings[x] = Applied(Defaults, f)[x]
  OBVIOUS
<1>1. CASE x \in Gives(f)
  BY <1>1, AppliedFields DEF Changed
<1>2. CASE x \notin Gives(f)
  BY <1>2, AppliedFields DEF Kept
<1> QED
  BY <1>1, <1>2

(* The conversion to a Duration stays in the type of the settings. *)
LEMMA AppliedType ==
    ASSUME NEW s \in Settings, NEW f \in Files
    PROVE  Applied(s, f) \in Settings
<1> SUFFICES ASSUME NEW x \in Fields
             PROVE  Applied(s, f)[x] \in Values \cup Durations \cup {None}
  BY DEF Applied, Settings
<1>1. CASE x \in Gives(f)
  <2>1. f.fields[x] \in Values
    BY <1>1 DEF Gives, Files
  <2>2. Applied(s, f)[x] = Read(x, f.fields[x])
    BY <1>1 DEF Applied
  <2>3. Read(x, f.fields[x]) \in Values \cup Durations
    BY <2>1 DEF Read, Durations
  <2> QED
    BY <2>2, <2>3
<1>2. CASE x \notin Gives(f)
  BY <1>2 DEF Applied, Settings
<1> QED
  BY <1>1, <1>2

(* TypeOK is inductive by itself. *)
THEOREM TypeCorrect == Spec => []TypeOK
<1>1. Init => TypeOK
  <2> SUFFICES ASSUME Init PROVE TypeOK
    OBVIOUS
  <2>1. loads \in 0..MaxLoads
    BY SettingsAssumption DEF Init
  <2>2. settings \in Settings /\ file \in Files
    BY SettingsAssumption DEF Init
  <2>3. {metricsEnabled, restartRequired, initialized} \subseteq BOOLEAN
    BY DEF Init
  <2> QED
    BY <2>1, <2>2, <2>3 DEF TypeOK, Init
<1>2. TypeOK /\ [Next]_vars => TypeOK'
  <2> SUFFICES ASSUME TypeOK, [Next]_vars
               PROVE  TypeOK'
    OBVIOUS
  <2> USE DEF TypeOK
  <2>1. CASE InitServer
    <3>1. settings' \in Settings
      BY <2>1, AppliedType DEF InitServer
    <3>2. metricsEnabled' \in BOOLEAN
      BY <2>1 DEF InitServer, MetricsApplied, Files
    <3>3. applied' \subseteq Fields
      BY <2>1 DEF InitServer, Gives
    <3> QED
      BY <2>1, <3>1, <3>2, <3>3 DEF InitServer, Valid
  <2>2. CASE Shutdown
    BY <2>2 DEF Shutdown
  <2>3. ASSUME NEW f \in Files, OnConfigReload(f)
        PROVE  TypeOK'
    <3>1. loads' \in 0..MaxLoads
      BY <2>3, SettingsAssumption DEF OnConfigReload
    <3>2. /\ settings' \in Settings /\ file' \in Files /\ initialized' \in BOOLEAN
          /\ applied' \subseteq Fields
      BY <2>3 DEF OnConfigReload, SettingsAfterReload
    <3>3. metricsEnabled' \in BOOLEAN
      BY <2>3 DEF OnConfigReload, MetricsApplied, Files
    <3>4. restartRequired' \in BOOLEAN
      BY <2>3 DEF OnConfigReload
    <3> QED
      BY <3>1, <3>2, <3>3, <3>4
  <2>4. CASE UNCHANGED vars
    BY <2>4 DEF vars
  <2> QED
    BY <2>1, <2>2, <2>3, <2>4 DEF Next
<1> QED
  BY <1>1, <1>2, PTL DEF Spec

(* Every reload leaves the settings alone while the server is initialized:  *)
(* docs/reload.md:3-5.                                                      *)
THEOREM SettingsStay == Spec => ListenerSettingsStay
<1>1. [Next]_vars => [initialized /\ initialized' => settings' = settings]_vars
  BY DEF Next, InitServer, Shutdown, OnConfigReload, SettingsAfterReload, vars
<1> QED
  BY <1>1, PTL DEF Spec, ListenerSettingsStay

(* The running server and the file agree unless the flag is up, but for the *)
(* fields that the file has dropped since an Init took them:                *)
(* docs/reload.md:18-21.  Kept makes it inductive.                          *)
THEOREM DriftIsDropped == Spec => []OnlyDroppedFieldsDrift
<1>1. Init => Kept /\ OnlyDroppedFieldsDrift
  BY DEF Init, Kept, OnlyDroppedFieldsDrift
<1>2. Kept /\ OnlyDroppedFieldsDrift /\ [Next]_vars => (Kept /\ OnlyDroppedFieldsDrift)'
  <2> SUFFICES ASSUME Kept, OnlyDroppedFieldsDrift, [Next]_vars
               PROVE  Kept' /\ OnlyDroppedFieldsDrift'
    OBVIOUS
  <2>1. CASE InitServer
    BY <2>1, InitDrift DEF OnlyDroppedFieldsDrift
  <2>2. CASE Shutdown
    BY <2>2 DEF Shutdown, Kept, OnlyDroppedFieldsDrift
  <2>3. ASSUME NEW f \in Files, OnConfigReload(f)
        PROVE  Kept' /\ OnlyDroppedFieldsDrift'
    <3>1. file' = f /\ settings' = settings /\ applied' = applied
      BY <2>3 DEF OnConfigReload, SettingsAfterReload
    <3>2. Kept'
      BY <3>1 DEF Kept
    <3>3. CASE initialized /\ ~restartRequired'
      <4>1. ~Changed(f)
        BY <2>3, <3>3 DEF OnConfigReload
      <4>2. NewProcess' = Applied(Defaults, f)
        BY <3>1 DEF NewProcess
      <4>3. Drifted' \subseteq applied' \ Gives(file')
        BY <3>1, <4>1, <4>2, ReloadDrift DEF Drifted
      <4> QED
        BY <3>2, <4>3 DEF OnlyDroppedFieldsDrift
    <3>4. CASE ~initialized \/ restartRequired'
      BY <2>3, <3>2, <3>4 DEF OnConfigReload, OnlyDroppedFieldsDrift
    <3> QED
      BY <3>3, <3>4
  <2>4. CASE UNCHANGED vars
    BY <2>4 DEF vars, Kept, OnlyDroppedFieldsDrift, Drifted, NewProcess
  <2> QED
    BY <2>1, <2>2, <2>3, <2>4 DEF Next
<1> QED
  BY <1>1, <1>2, PTL DEF Spec

(* The flag goes up only in a reload after which a new process would run    *)
(* with other settings.                                                     *)
THEOREM NoAlarmIsFalse == Spec => NoFalseAlarm
<1>1. TypeOK /\ [Next]_vars
        => [~restartRequired /\ restartRequired' => settings # NewProcess']_vars
  <2> SUFFICES ASSUME TypeOK, Next, ~restartRequired, restartRequired'
               PROVE  settings # NewProcess'
    OBVIOUS
  <2>1. PICK f \in Files : OnConfigReload(f)
    BY DEF Next, InitServer, Shutdown
  <2>2. Changed(f) /\ file' = f
    BY <2>1 DEF OnConfigReload
  <2>3. PICK x \in Gives(f) : Read(x, f.fields[x]) # settings[x]
    BY <2>2 DEF Changed
  <2>4. NewProcess'[x] = Read(x, f.fields[x])
    BY <2>2, <2>3 DEF NewProcess, Applied, Gives
  <2> QED
    BY <2>3, <2>4
<1> QED
  BY <1>1, TypeCorrect, PTL DEF Spec, NoFalseAlarm
=============================================================================
