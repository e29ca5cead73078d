------------------------- MODULE KeyRotationProofs -------------------------
(***************************************************************************)
(* Proofs about KeyRotation, for any processes, devices and keys.          *)
(***************************************************************************)
EXTENDS KeyRotation, TLAPS

\* What encrypt_secret returns is under the primary key, and names it.
LEMMA EncryptIsUnderPrimary ==
    ASSUME NEW s \in Settings
    PROVE  /\ encrypt_secret(s) \in EncryptedSecret
           /\ encrypt_secret(s) # NoSecret
           /\ encrypt_secret(s).key_id = s.primary
BY SecretsAssumption DEF Settings, EncryptedSecret, encrypt_secret, EncryptionKey

LEMMA InitInv == Init => Inv
<1> SUFFICES ASSUME Init PROVE Inv
  OBVIOUS
<1> USE DEF Init, FirstSettings
<1>1. FirstSettings \in Settings
  BY KeysAssumption DEF Settings
<1>2. TypeOK
  BY <1>1 DEF TypeOK
<1>3. PrimariesKnown /\ StoredKnown /\ HeldFits
  BY DEF PrimariesKnown, StoredKnown, HeldFits, Known
<1> QED
  BY <1>2, <1>3 DEF Inv

\* A deployment that adds a key, or changes the primary one to a key it has.
LEMMA AddKeyInv ==
    ASSUME Inv, NEW k \in KeyIds, AddKey(k) PROVE Inv'
BY DEF Inv, TypeOK, PrimariesKnown, StoredKnown, HeldFits, Known, AddKey, calls, Settings

LEMMA PromoteInv ==
    ASSUME Inv, NEW k \in KeyIds, Promote(k) PROVE Inv'
BY DEF Inv, TypeOK, PrimariesKnown, StoredKnown, HeldFits, Known, Promote, RolledOut,
       calls, Settings

\* A key is retired: it is the primary one of no process, since all have the
\* settings of the deployment, and nothing stored needs it.
LEMMA RetireInv ==
    ASSUME Inv, NEW k \in KeyIds, Retire(k) PROVE Inv'
<1> USE DEF Inv, Retire, RolledOut, Needed
<1>1. /\ target' \in Settings
      /\ target'.primary = target.primary
      /\ target'.keys = target.keys \ {k}
  BY DEF TypeOK, Settings
<1>2. UNCHANGED <<settings, stored, pc, dev, held>>
  BY DEF calls
<1>3. \A j : Known(j) /\ j # k => Known(j)'
  BY <1>1, <1>2 DEF Known
<1>4. \A p \in Processes : settings[p].primary # k
  OBVIOUS
<1>5. TypeOK'
  BY <1>1, <1>2 DEF TypeOK
<1>6. PrimariesKnown'
  BY <1>1, <1>2, <1>3, <1>4 DEF PrimariesKnown
<1>7. StoredKnown'
  BY <1>2, <1>3 DEF StoredKnown
<1>8. HeldFits'
  BY <1>2 DEF HeldFits
<1> QED
  BY <1>5, <1>6, <1>7, <1>8

LEMMA RestartInv ==
    ASSUME Inv, NEW p \in Processes, Restart(p) PROVE Inv'
BY DEF Inv, TypeOK, PrimariesKnown, StoredKnown, HeldFits, Known, Restart, Return, Hold

\* Steps of a call that leave the tables and the settings alone.
LEMMA HoldInv ==
    ASSUME Inv, NEW p \in Processes, NEW state \in {"read", "save", "update"},
           NEW d \in Devices, NEW e \in EncryptedSecret, Hold(p, state, d, e),
           state = "read" => e.key_id \in settings[p].keys,
           state \in {"save", "update"} => e.key_id = settings[p].primary,
           UNCHANGED <<target, settings, stored>>
    PROVE  Inv'
BY SecretsAssumption
   DEF Inv, TypeOK, PrimariesKnown, StoredKnown, HeldFits, Known, Hold

LEMMA ReturnInv ==
    ASSUME Inv, NEW p \in Processes, Return(p), UNCHANGED <<target, settings, stored>>
    PROVE  Inv'
BY DEF Inv, TypeOK, PrimariesKnown, StoredKnown, HeldFits, Known, Return, Hold

LEMMA SaveInv ==
    ASSUME Inv, NEW p \in Processes, NEW d \in Devices, Save(p, d) PROVE Inv'
<1> USE DEF Inv, Save
<1>1. held[p] \in EncryptedSecret /\ held[p].key_id = settings[p].primary
  BY DEF TypeOK, HeldFits
<1>2. stored' = stored \/ stored' = [stored EXCEPT ![d] = held[p]]
  OBVIOUS
<1>3. TypeOK' /\ HeldFits'
  BY <1>1, <1>2 DEF TypeOK, HeldFits, Return, Hold
<1>4. PrimariesKnown'
  BY DEF PrimariesKnown, Known
<1>5. Known(held[p].key_id)
  BY <1>1 DEF PrimariesKnown
<1>6. StoredKnown'
  BY <1>2, <1>5 DEF TypeOK, StoredKnown, Known
<1> QED
  BY <1>3, <1>4, <1>6

LEMMA DeleteInv ==
    ASSUME Inv, NEW d \in Devices, Delete(d) PROVE Inv'
BY DEF Inv, TypeOK, PrimariesKnown, StoredKnown, HeldFits, Known, Delete, calls

LEMMA NextInv == Inv /\ [Next]_vars => Inv'
<1> SUFFICES ASSUME Inv, [Next]_vars PROVE Inv'
  OBVIOUS
<1>1. ASSUME NEW k \in KeyIds, AddKey(k) \/ Promote(k) \/ Retire(k) PROVE Inv'
  BY <1>1, AddKeyInv, PromoteInv, RetireInv
<1>2. ASSUME NEW p \in Processes, Restart(p) PROVE Inv'
  BY <1>2, RestartInv
<1>3. ASSUME NEW p \in Processes, NEW d \in Devices, Enrol(p, d) PROVE Inv'
  <2>1. settings[p] \in Settings
    BY DEF Inv, TypeOK
  <2> QED
    BY <1>3, <2>1, EncryptIsUnderPrimary, HoldInv DEF Enrol
<1>4. ASSUME NEW p \in Processes, NEW d \in Devices, Read(p, d) PROVE Inv'
  <2>1. stored[d] \in EncryptedSecret /\ stored[d].key_id \in settings[p].keys
    BY <1>4 DEF Inv, TypeOK, StoredKnown, Known, Read
  <2> QED
    BY <1>4, <2>1, HoldInv DEF Read
<1>5. ASSUME NEW p \in Processes, NEW d \in Devices, ReEncrypt(p, d) PROVE Inv'
  <2>1. settings[p] \in Settings
    BY DEF Inv, TypeOK
  <2> QED
    BY <1>5, <2>1, EncryptIsUnderPrimary, HoldInv DEF ReEncrypt
<1>6. ASSUME NEW p \in Processes, Verify(p) \/ Abort(p) PROVE Inv'
  BY <1>6, ReturnInv DEF Verify, Abort
<1>7. ASSUME NEW p \in Processes, NEW d \in Devices, Save(p, d) PROVE Inv'
  BY <1>7, SaveInv
<1>8. ASSUME NEW d \in Devices, Delete(d) PROVE Inv'
  BY <1>8, DeleteInv
<1>9. CASE UNCHANGED vars
  BY <1>9 DEF Inv, TypeOK, PrimariesKnown, StoredKnown, HeldFits, Known, vars, calls
<1> QED
  BY <1>1, <1>2, <1>3, <1>4, <1>5, <1>6, <1>7, <1>8, <1>9 DEF Next, Operate, CallOf

\* The inductive invariant: every key in use is one that every process has.
THEOREM Invariance == Spec => []Inv
BY InitInv, NextInv, PTL DEF Spec

\* Type correctness; a persisted secret names the key that encrypted it.
THEOREM TypeCorrect == Spec => []TypeOK
<1>1. Inv => TypeOK
  BY DEF Inv
<1> QED
  BY <1>1, Invariance, PTL

\* In every state of every rotation each process reads each stored secret.
THEOREM StoredIsReadable == Spec => []EveryoneReads
<1>1. Inv => EveryoneReads
  <2> SUFFICES ASSUME Inv, NEW p \in Processes, NEW d \in Devices, stored[d] # NoSecret
               PROVE  CanDecrypt(settings[p], stored[d])
    BY DEF EveryoneReads
  <2>1. stored[d] \in EncryptedSecret
    BY DEF Inv, TypeOK
  <2> QED
    BY <2>1 DEF Inv, StoredKnown, Known, EncryptedSecret, CanDecrypt
<1> QED
  BY <1>1, Invariance, PTL

\* No call has reason to raise: encryption has its key, and so has the decryption
\* of what a call has read, however long ago.
THEOREM CallsSucceed == Spec => []NoCallFails
<1>1. Inv => NoCallFails
  <2> SUFFICES ASSUME Inv, NEW p \in Processes
               PROVE  /\ CanEncrypt(settings[p])
                      /\ pc[p] = "read" => CanDecrypt(settings[p], held[p])
    BY DEF NoCallFails
  <2>1. CanEncrypt(settings[p])
    BY DEF Inv, PrimariesKnown, Known, CanEncrypt
  <2>2. pc[p] = "read" => CanDecrypt(settings[p], held[p])
    BY DEF Inv, TypeOK, HeldFits, EncryptedSecret, CanDecrypt
  <2> QED
    BY <2>1, <2>2
<1> QED
  BY <1>1, Invariance, PTL

\* A row is only ever saved under the primary key of the process that saves it:
\* restarts end the calls that began with another one.
THEOREM DemotedKeyIsIdle == Spec => DemotedKeyDrains
<1> DEFINE Idle(k)   == \A p \in Processes : settings[p].primary # k
           Drains(k) == \A d \in Devices :
               stored'[d] # NoSecret /\ stored'[d].key_id = k => stored'[d] = stored[d]
<1>1. ASSUME Inv, Next, NEW k \in KeyIds, Idle(k) PROVE Drains(k)
  <2>1. CASE UNCHANGED stored
    BY <2>1
  <2>2. ASSUME NEW p \in Processes, NEW d \in Devices, Save(p, d) PROVE Drains(k)
    <3>1. stored' = stored \/ stored' = [stored EXCEPT ![d] = held[p]]
      BY <2>2 DEF Save
    <3>2. held[p].key_id # k
      BY <1>1, <2>2 DEF Save, Inv, HeldFits
    <3> QED
      BY <1>1, <3>1, <3>2 DEF Inv, TypeOK
  <2>3. ASSUME NEW d \in Devices, Delete(d) PROVE Drains(k)
    BY <1>1, <2>3 DEF Delete, Inv, TypeOK
  <2>4. Operate => UNCHANGED stored
    BY DEF Operate, AddKey, Promote, Retire
  <2>5. \A p \in Processes : Restart(p) \/ Verify(p) \/ Abort(p) => UNCHANGED stored
    BY DEF Restart, Verify, Abort
  <2>6. \A p \in Processes, d \in Devices :
           Enrol(p, d) \/ Read(p, d) \/ ReEncrypt(p, d) => UNCHANGED stored
    BY DEF Enrol, Read, ReEncrypt
  <2> QED
    BY <1>1, <2>1, <2>2, <2>3, <2>4, <2>5, <2>6 DEF Next, CallOf
<1>2. Inv /\ [Next]_vars => [\A k \in KeyIds : Idle(k) => Drains(k)]_vars
  BY <1>1
<1> QED
  BY <1>2, Invariance, PTL DEF Spec, DemotedKeyDrains
=============================================================================
