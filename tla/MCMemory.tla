------------------------------- MODULE MCMemory -------------------------------
(***************************************************************************)
(* modOwner declares memMain, modUser imports that memory and functions of *)
(* modOwner, modHold imports only functions, and modNext declares a memory *)
(* of its own that may get the pooled buffer.                              *)
(***************************************************************************)
EXTENDS MemoryLife, TLC

CONSTANTS modOwner, modUser, modHold, modNext, memMain, memNext, callOwner,
    callUser, callHold, bufOne, bufTwo

OwnerModule == memMain :> modOwner @@ memNext :> modNext
MemoryImports == [m \in Mods |-> IF m = modUser THEN {memMain} ELSE {}]
FunctionImports == [m \in Mods |-> IF m \in {modUser, modHold} THEN {memMain} ELSE {}]
HandleModule == [h \in Handles |-> CASE h = callOwner -> modOwner
                                    [] h = callUser -> modUser
                                    [] h = callHold -> modHold]
BufferSymmetry == Permutations({bufOne, bufTwo})
===============================================================================
