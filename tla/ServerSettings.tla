--------------------------- MODULE ServerSettings ---------------------------
(****************************************************************************)
(* What the server keeps of its configuration source, field by field: Init  *)
(* applies a file over the settings of New, OnConfigReload only compares    *)
(* (config.go).  Here a whole handler is a step and the fields are told     *)
(* apart; restart_policy, which only decides whether Run is cancelled, and  *)
(* the interleaving with Run are ServerLifecycle's.                         *)
(*                                                                          *)
(* A file gives each field a value or omits it.  Fields in Seconds go       *)
(* through time.Duration(v * 1e9), which truncates: Unit values fall on one *)
(* Duration, and those below Unit on none.  What the conversion makes of a  *)
(* value past MaxDuration is the machine's: Overflowed, the least int64 on  *)
(* amd64.  A setting that is None has neither an option nor a file.         *)
(*                                                                          *)
(* Bounds.  MaxLoads bounds the files that are loaded.                      *)
(****************************************************************************)
EXTENDS Integers

CONSTANTS
    Fields, Seconds, Positive,
    Values, Unit, MaxDuration, Overflowed,
    Defaults, MaxLoads, Omitted, None

Durations == {v \div Unit : v \in Values} \cup {Overflowed}
Settings == [Fields -> Values \cup Durations \cup {None}]

ASSUME SettingsAssumption ==
    /\ Seconds \subseteq Fields /\ Positive \subseteq Fields
    /\ Values \subseteq Nat /\ Unit \in Nat \ {0}
    /\ MaxDuration \in Nat /\ Overflowed \in Int
    /\ Defaults \in Settings
    /\ MaxLoads \in Nat
    /\ None \notin Int /\ Omitted \notin Int

VARIABLES
    settings,          \* the fields of Server that a restart would re-read
    metricsEnabled, restartRequired, initialized,
    applied,           \* history: the fields that Init took from a file
    file,              \* the file as it is now
    loads              \* how many files were loaded

vars == <<settings, metricsEnabled, restartRequired, initialized, applied, file,
          loads>>

Files == [fields : [Fields -> Values \cup {Omitted}], metrics : BOOLEAN \cup {Omitted}]
Gives(f) == {x \in Fields : f.fields[x] # Omitted}

(* validateServerConfig, over the file as it is spelled: a positive value   *)
(* may truncate to zero, and the bound of validateSeconds, in floating      *)
(* point, takes in the first value that overflows.                          *)
Accepted(f) ==
    \A x \in Gives(f) :
        /\ x \in Positive => f.fields[x] > 0
        /\ x \in Seconds => f.fields[x] <= (MaxDuration + 1) * Unit

TypeOK ==
    /\ settings \in Settings
    /\ {metricsEnabled, restartRequired, initialized} \subseteq BOOLEAN
    /\ applied \subseteq Fields
    /\ file \in Files
    /\ loads \in 0..MaxLoads

(* New, with its options; the file is there from the start. *)
Init ==
    /\ settings = Defaults
    /\ metricsEnabled = TRUE /\ restartRequired = FALSE /\ initialized = FALSE
    /\ applied = {}
    /\ file \in Files /\ Accepted(file)
    /\ loads = 0

-----------------------------------------------------------------------------
(* time.Duration(v * float64(time.Second)) for the timeouts.                *)
Read(x, v) ==
    IF x \notin Seconds THEN v
    ELSE IF v \div Unit <= MaxDuration THEN v \div Unit
    ELSE Overflowed

Applied(s, f) ==
    [x \in Fields |-> IF x \in Gives(f) THEN Read(x, f.fields[x]) ELSE s[x]]
MetricsApplied(f) == IF f.metrics = Omitted THEN metricsEnabled ELSE f.metrics

(* validateActiveSettings, over what the file was converted to. *)
Valid(s) ==
    \A x \in Fields :
        /\ s[x] # None
        /\ x \in Seconds => s[x] >= 0
        /\ x \in Positive => s[x] > 0

(* Init applies the file before it validates, and keeps what it applied     *)
(* when it then fails.                                                      *)
InitServer ==
    /\ ~initialized
    /\ settings' = Applied(settings, file)
    /\ metricsEnabled' = MetricsApplied(file)
    /\ initialized' = Valid(Applied(settings, file))
    /\ applied' = applied \cup Gives(file)
    /\ UNCHANGED <<restartRequired, file, loads>>

VariantComparesRaw(f) == \E x \in Gives(f) : f.fields[x] # settings[x]
VariantIgnoresTimeouts(f) ==
    \E x \in Gives(f) \ Seconds : Read(x, f.fields[x]) # settings[x]
Changed(f) == \E x \in Gives(f) : Read(x, f.fields[x]) # settings[x]

SettingsAfterReload(f) == settings

(* The configuration component has loaded another file, which the validator *)
(* of the source has accepted, and notifies.                                *)
OnConfigReload(f) ==
    /\ loads < MaxLoads
    /\ Accepted(f)
    /\ file' = f
    /\ loads' = loads + 1
    /\ \/ ~initialized /\ UNCHANGED <<settings, metricsEnabled, restartRequired>>
       \/ /\ initialized
          /\ settings' = SettingsAfterReload(f)
          /\ metricsEnabled' = MetricsApplied(f)
          /\ restartRequired' = (restartRequired \/ Changed(f))
    /\ UNCHANGED <<initialized, applied>>

Shutdown ==
    /\ initialized
    /\ initialized' = FALSE
    /\ UNCHANGED <<settings, metricsEnabled, restartRequired, applied, file, loads>>

Next == InitServer \/ Shutdown \/ \E f \in Files : OnConfigReload(f)

Spec == Init /\ [][Next]_vars

-----------------------------------------------------------------------------
(* Properties.                                                              *)

(* What a new process would run with, given the file as it is now. *)
NewProcess == Applied(Defaults, file)

(* Where the running server and a new process part.                         *)
Drifted == {x \in Fields : settings[x] # NewProcess[x]}

(* docs/reload.md:18-21, as far as the code keeps it: unless                *)
(* http_server_restart_required is up, the server runs with what the file   *)
(* says, after any reloads, restarts and failed Inits, and whatever the     *)
(* files gave or omitted.  The one way to drift silently is to drop a field *)
(* that an Init had taken from an earlier file: a field that the file gives *)
(* never drifts, nor one that it omits and no Init was ever given.          *)
OnlyDroppedFieldsDrift ==
    initialized /\ ~restartRequired => Drifted \subseteq applied \ Gives(file)

(* A reload asks for a restart only if a restart would change something: it *)
(* compares what Init would store, not what the file spells.                *)
NoFalseAlarm ==
    [][~restartRequired /\ restartRequired' => settings # NewProcess']_vars

(* docs/reload.md:3-5: nothing that a listener was bound with changes while *)
(* the server stays initialized.                                            *)
ListenerSettingsStay ==
    [][initialized /\ initialized' => settings' = settings]_vars

-----------------------------------------------------------------------------
(* What the repository says, and the code does not do.                      *)

(* docs/reload.md:18-21, without the exception: the server sets             *)
(* http_server_restart_required=1 when a restart-required setting changed.  *)
NoSilentDrift == initialized /\ ~restartRequired => Drifted = {}

(* config.go:250: an accepted shutdown_timeout_sec is "positive and finite".*)
(* So a restart that a reload asks for ends in a process that initializes.  *)
RequiredRestartStarts == initialized /\ restartRequired => Valid(NewProcess)

(* metrics.go:156: "1 = restart needed, 0 = no restart needed". *)
FlagMeansRestartNeeded == initialized /\ restartRequired => settings # NewProcess
=============================================================================
