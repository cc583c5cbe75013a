--------------------------- MODULE MCModuleCache ---------------------------
(* One module with everything going wrong and one permit; the same without *)
(* a memory tier where loads fail; two modules with nothing going wrong    *)
(* and two permits.                                                        *)
EXTENDS ModuleCache

CONSTANTS d1, d2

Setting(n, f, ds, k) == [noMemory |-> n, faults |-> f, digests |-> ds, compiles |-> k]

MCSettings == {Setting(FALSE, FaultKinds, {d1}, 1), Setting(TRUE, {"fail"}, {d1}, 1),
               Setting(FALSE, {}, {d1, d2}, 2)}
=============================================================================
