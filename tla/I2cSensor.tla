------------------------------- MODULE I2cSensor -------------------------------
(***************************************************************************)
(* The sensor of el5/01 behind sim_read_reg and sim_write_reg, and the     *)
(* driver functions, which change single bits by reading the register,     *)
(* changing the value and writing it back.  A register is the set of its   *)
(* bits that are 1; those the driver only reads (WHO_AM_I, DATA) keep the  *)
(* value sim_device_init gave them.                                        *)
(***************************************************************************)
EXTENDS Naturals

VARIABLES filled,
          initialized,      \* g_initialized
          regs              \* CONFIG, SCALE, STATUS

vars == <<filled, initialized, regs>>
Registers == {"CONFIG", "SCALE", "STATUS"}
BitNos == 0..7
Reset == [r \in Registers |-> IF r = "SCALE" THEN {3, 4} ELSE {}]    \* SCALE = 0x18

Init == /\ filled \in BOOLEAN
        /\ initialized = FALSE /\ regs = [r \in Registers |-> {}]

SimDeviceInit == initialized' = TRUE /\ regs' = Reset

SimSetDataReady == /\ initialized
                   /\ regs' = [regs EXCEPT !["STATUS"] = @ \cup {0}]
                   /\ UNCHANGED initialized

\* Read, modify, write: the bits of mask become those of value, and on a bus
\* error nothing is written.
Update(reg, mask, value) == /\ filled /\ initialized
                            /\ regs' = [regs EXCEPT ![reg] = (@ \ mask) \cup value]
                            /\ UNCHANGED initialized

DeviceEnable == Update("CONFIG", {0}, {0})
DeviceDisable == Update("CONFIG", {0}, {})
DeviceSetScale == \E scale \in SUBSET {4, 5} : Update("SCALE", {4, 5}, scale)

Next == /\ \/ SimDeviceInit \/ SimSetDataReady
           \/ DeviceEnable \/ DeviceDisable \/ DeviceSetScale
        /\ UNCHANGED filled
Spec == Init /\ [][Next]_vars

-----------------------------------------------------------------------------
TypeOK == /\ filled \in BOOLEAN /\ initialized \in BOOLEAN
          /\ regs \in [Registers -> SUBSET BitNos]

\* The driver never touches a bit it was not asked to change.
OthersKept == initialized => /\ regs["CONFIG"] \ {0} = Reset["CONFIG"] \ {0}
                             /\ regs["SCALE"] \ {4, 5} = Reset["SCALE"] \ {4, 5}
                             /\ regs["STATUS"] \ {0} = Reset["STATUS"] \ {0}

-----------------------------------------------------------------------------
\* OthersKept is kept by every access as it is.
IInv == TypeOK /\ OthersKept
=============================================================================
