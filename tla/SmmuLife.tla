------------------------------ MODULE SmmuLife ------------------------------
(***************************************************************************)
(* The life of the SMMUs: val_smmu_init probes each SMMU, allocates its    *)
(* queues and stream table and enables it; val_smmu_enable and             *)
(* val_smmu_disable switch translation; val_smmu_stop ends it.             *)
(*                                                                         *)
(* cr0 is the control register as the SMMU acknowledged it. A write that   *)
(* is not acknowledged in time leaves the old value in force.              *)
(***************************************************************************)
EXTENDS Integers

CONSTANT
    NumSmmus    \* g_num_smmus

ASSUME LifeAssumption == NumSmmus \in Nat \ {0}

Smmus == 0 .. NumSmmus - 1
Parts == {"cmdq", "evntq", "strtab"}
Bits == {"CMDQEN", "EVNTQEN", "SMMUEN"}

VARIABLES
    pc,       \* where val_smmu_init or val_smmu_stop is
    index,    \* g_smmu_index
    status,   \* what val_smmu_init returned
    base,     \* g_smmu[].base is set
    memory,   \* the parts allocated for each SMMU
    cr0,      \* CR0 as acknowledged
    lost      \* history: the SMMUs that left a write of CR0 unacknowledged

vars == <<pc, index, status, base, memory, cr0, lost>>

Init ==
    /\ pc = "start" /\ index = 0 /\ status = "none"
    /\ base = [i \in Smmus |-> FALSE]
    /\ memory = [i \in Smmus |-> {}]
    /\ cr0 = [i \in Smmus |-> {}] /\ lost = {}

(* smmu_reg_write_sync: the new value, or after the timeout the old one.    *)
Acknowledged(i, bits) == cr0' = [cr0 EXCEPT ![i] = bits] /\ UNCHANGED lost
NotAcknowledged(i) == lost' = lost \cup {i} /\ UNCHANGED cr0

(* An SMMU of another version is left out; g_smmu itself may not be there.  *)
val_smmu_init ==
    /\ pc = "start"
    /\ \/ /\ index' = 0 /\ pc' = "version" /\ UNCHANGED status
       \/ pc' = "none" /\ status' = "error" /\ UNCHANGED index
    /\ UNCHANGED <<base, memory, cr0, lost>>

NextSmmu ==
    IF index + 1 < NumSmmus THEN pc' = "version" /\ index' = index + 1 /\ UNCHANGED status
    ELSE pc' = "ready" /\ status' = "ok" /\ UNCHANGED index

Version ==
    /\ pc = "version"
    /\ \/ NextSmmu /\ UNCHANGED base
       \/ pc' = "cmdq" /\ base' = [base EXCEPT ![index] = TRUE] /\ UNCHANGED <<index, status>>
    /\ UNCHANGED <<memory, cr0, lost>>

(* smmu_init fails: the SMMU is struck off and those after it are left out. *)
InitFails ==
    /\ base' = [base EXCEPT ![index] = FALSE]
    /\ pc' = "ready" /\ status' = "error"
    /\ UNCHANGED <<index, memory, cr0, lost>>

After(p) == CASE p = "cmdq" -> "evntq" [] p = "evntq" -> "strtab" [] OTHER -> "clear"

smmu_probe_fails == pc = "cmdq" /\ InitFails

Allocate ==
    /\ pc \in Parts
    /\ memory' = [memory EXCEPT ![index] = @ \cup {pc}]
    /\ pc' = After(pc)
    /\ UNCHANGED <<index, status, base, cr0, lost>>

AllocationFails == pc \in Parts /\ InitFails

(* The steps of smmu_reset. They return 1 when CR0 is not acknowledged, and *)
(* 1 is also what they return at the end: smmu_init takes it for success.   *)
NextStep(p) == CASE p = "clear" -> "CMDQEN" [] p = "CMDQEN" -> "EVNTQEN" [] OTHER -> "SMMUEN"

(* The last en |= is missing.                                               *)
WithoutLastBit(p) == IF p = "clear" THEN {} ELSE (cr0[index] \cup {p}) \ {"SMMUEN"}

WriteBit(p) == IF p = "clear" THEN {} ELSE cr0[index] \cup {p}

ResetStep ==
    /\ pc \in {"clear"} \cup Bits
    /\ Acknowledged(index, WriteBit(pc))
    /\ IF pc = "SMMUEN" THEN NextSmmu
       ELSE pc' = NextStep(pc) /\ UNCHANGED <<index, status>>
    /\ UNCHANGED <<base, memory>>

ResetFails ==
    /\ pc \in {"clear"} \cup Bits
    /\ NotAcknowledged(index)
    /\ NextSmmu
    /\ UNCHANGED <<base, memory>>

(* val_smmu_enable and val_smmu_disable.                                    *)
smmu_set_state(i, en) ==
    /\ pc = "ready" /\ base[i]
    /\ \/ Acknowledged(i, IF en THEN cr0[i] \cup {"SMMUEN"} ELSE cr0[i] \ {"SMMUEN"})
       \/ NotAcknowledged(i)
    /\ UNCHANGED <<pc, index, status, base, memory>>

val_smmu_stop ==
    /\ pc = "ready"
    /\ pc' = "disable" /\ index' = 0
    /\ UNCHANGED <<status, base, memory, cr0, lost>>

StopNext ==
    IF index + 1 < NumSmmus THEN index' = index + 1 /\ pc' = "disable"
    ELSE pc' = "none" /\ UNCHANGED index

StopSkips ==
    /\ pc = "disable" /\ ~base[index]
    /\ StopNext
    /\ UNCHANGED <<status, base, memory, cr0, lost>>

(* Memory is freed under a running SMMU.                                    *)
LeftEnabled ==
    /\ pc = "disable" /\ base[index]
    /\ pc' = "free"
    /\ UNCHANGED <<index, status, base, memory, cr0, lost>>

smmu_dev_disable ==
    /\ pc = "disable" /\ base[index]
    /\ Acknowledged(index, {}) \/ NotAcknowledged(index)
    /\ pc' = "free"
    /\ UNCHANGED <<index, status, base, memory>>

FreeParts == memory' = [memory EXCEPT ![index] = {}]

StopFrees ==
    /\ pc = "free"
    /\ FreeParts
    /\ StopNext
    /\ UNCHANGED <<status, base, cr0, lost>>

Stopped == pc = "none" /\ UNCHANGED vars

Next ==
    \/ val_smmu_init \/ Version \/ smmu_probe_fails \/ Allocate \/ AllocationFails
    \/ ResetStep \/ ResetFails
    \/ \E i \in Smmus, en \in BOOLEAN : smmu_set_state(i, en)
    \/ val_smmu_stop \/ StopSkips \/ smmu_dev_disable \/ StopFrees \/ Stopped

Spec == Init /\ [][Next]_vars
-----------------------------------------------------------------------------
TypeOK ==
    /\ pc \in {"start", "version", "clear", "ready", "disable", "free", "none"} \cup Parts \cup Bits
    /\ index \in Smmus /\ status \in {"none", "ok", "error"}
    /\ base \in [Smmus -> BOOLEAN]
    /\ memory \in [Smmus -> SUBSET Parts] /\ cr0 \in [Smmus -> SUBSET Bits]
    /\ lost \subseteq Smmus

(* An SMMU that acknowledges its writes of CR0 has all of its memory while  *)
(* it translates or uses a queue: it is enabled after the last allocation   *)
(* and disabled before the first free.                                      *)
EnabledHasMemory == \A i \in Smmus \ lost : cr0[i] # {} => memory[i] = Parts

(* After val_smmu_stop the driver has freed what it allocated for every     *)
(* SMMU it took on, whichever writes of CR0 were lost.                      *)
StopFreesAll == pc = "none" => \A i \in Smmus : base[i] => memory[i] = {}

(* The memory of an SMMU is there as long as it is used and no longer: both *)
(* of the above (val_smmu_init, val_smmu_stop).                             *)
MemoryFollowsUse == EnabledHasMemory /\ StopFreesAll

(* When val_smmu_init reports success every SMMU it took on translates,     *)
(* unless a write of its CR0 was lost.                                      *)
InitMeansEnabled ==
    [][status' = "ok" /\ status = "none" =>
          \A i \in Smmus \ lost' : base'[i] => "SMMUEN" \in cr0'[i]]_vars
=============================================================================
