----------------------------- MODULE Components -----------------------------
(***************************************************************************)
(* The parts around the download task that have no state in common with    *)
(* each other: the lock on the part file, how reports reach the host       *)
(* (state.rs under every binding, the Godot node's queue, the JavaScript   *)
(* facade over the Tauri plugin), the speed they tell, and what is asked   *)
(* of a digest and learnt of an error.  A behaviour is one of one part,    *)
(* chosen in the initial state.  The properties are those of the parts.    *)
(***************************************************************************)
EXTENDS PartLock, Callbacks, JsFacade, GodotNode, SpeedWindow, BlockHash, HashOption,
        LastError

VARIABLE active \* which of them

hostVars == <<reportVars, jsVars, godotVars>>
dataVars == <<speedVars, blockVars, optionVars, errorVars>>
componentsVars == <<active, vars, hostVars, dataVars>>

Parts == {"lock", "reports", "javascript", "godot", "speed", "digest", "options", "error"}

ComponentsInit ==
    /\ active \in Parts
    /\ Init /\ ReportInit /\ JsInit /\ GodotInit
    /\ SpeedInit /\ BlockInit /\ OptionInit /\ ErrorInit
    \* What is to be hashed is told apart in its own part only.
    /\ active # "digest" => contentLen = 0 /\ bigEndian /\ readSize = CHOOSE n \in ReadSizes : TRUE

LockStep ==
    active = "lock" /\ Next /\ UNCHANGED <<active, hostVars, dataVars>>
ReportStep ==
    active = "reports" /\ ReportNext /\ UNCHANGED <<active, vars, jsVars, godotVars, dataVars>>
JsStep ==
    active = "javascript" /\ JsNext /\ UNCHANGED <<active, vars, reportVars, godotVars, dataVars>>
GodotStep ==
    active = "godot" /\ GodotNext /\ UNCHANGED <<active, vars, reportVars, jsVars, dataVars>>
SpeedStep ==
    /\ active = "speed" /\ SpeedNext
    /\ UNCHANGED <<active, vars, hostVars, blockVars, optionVars, errorVars>>
DigestStep ==
    /\ active = "digest" /\ BlockNext
    /\ UNCHANGED <<active, vars, hostVars, speedVars, optionVars, errorVars>>
OptionStep ==
    /\ active = "options" /\ OptionNext
    /\ UNCHANGED <<active, vars, hostVars, speedVars, blockVars, errorVars>>
ErrorStep ==
    /\ active = "error" /\ ErrorNext
    /\ UNCHANGED <<active, vars, hostVars, speedVars, blockVars, optionVars>>

ComponentsNext ==
    LockStep \/ ReportStep \/ JsStep \/ GodotStep \/ SpeedStep \/ DigestStep \/ OptionStep
        \/ ErrorStep

\* Each part is scheduled as its own module says.
ComponentsSpec ==
    /\ ComponentsInit /\ [][ComponentsNext]_componentsVars
    /\ ReportFairness /\ JsFairness /\ GodotFairness
=============================================================================
