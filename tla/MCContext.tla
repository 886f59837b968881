------------------------------ MODULE MCContext -----------------------------
(* Three modules the library comes with, at the numbers they compete for:    *)
(* Intel's, which any vendor may carry and which yields its types, and those *)
(* of Dell and HPE, which relocate its structures or suppress them, the one  *)
(* of HPE with specifications bound to generations.  There is room for one   *)
(* specification told by a signature where the code has three (Signatures),  *)
(* so that two modules can have more of them than fit.                       *)
EXTENDS Context, ExtensionModules

(* A desktop of Dell and a server of HP, both with processors of Intel; the  *)
(* third is no platform.                                                     *)
Made(by, product) == Detected(Vendors(by, by, by, "intel"), product)
MCSeen ==
  [precision |-> Made("dell", Workstation),
   proliant  |-> Made("hp", Server(7, FALSE)),
   none      |-> Detected(Vendors(NoVendor, NoVendor, NoVendor, NoVendor), Workstation)]

Contested == {0, 206, 219, 221, 222, 226}

WithinContested(module) ==
  [module EXCEPT !.entities    = SelectSeq(@, LAMBDA s : s.type \in Contested),
                 !.relocations = SelectSeq(@, LAMBDA r : r.type \in Contested \union {InvalidType})]

Dell  == WithinContested(ModuleSeen(DellModule, MCSeen))
Hpe   == WithinContested(ModuleSeen(HpeModule, MCSeen))
Intel == WithinContested(ModuleSeen(IntelModule, MCSeen))

MCModules == <<Dell, Hpe, Intel>>
MCBuiltIn ==
  (0 :> StandardSeen(0, MCSeen)) @@ [t \in Contested \ StandardTypes |-> NoSpec]

(* What MapComplete takes for granted of the modules.                        *)
ASSUME ClosingAssumption == ClosingIsSafe

(* The allocator may give any address that is free.                          *)
Allocations == Permutations(Buffers)

=============================================================================
