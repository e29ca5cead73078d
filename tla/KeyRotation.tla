----------------------------- MODULE KeyRotation -----------------------------
(***************************************************************************)
(* django_mfa_toolkit/secret_storage.py in a deployment: processes that    *)
(* were started with different settings encrypt, read and re-encrypt the   *)
(* secrets of devices while an operator rotates the keys.                  *)
(*                                                                         *)
(* Settings are fixed when a process starts.  The operator follows         *)
(* secret-storage.md, "Key Rotation": a key is added, made the primary     *)
(* one, and the old key removed when nothing stored needs it; each step is *)
(* a deployment, and the next one waits until every process has been       *)
(* started again.  The cipher is Fernet: what one key has encrypted no     *)
(* other key decrypts.                                                     *)
(***************************************************************************)
EXTENDS FiniteSets

CONSTANTS
    Processes,
    Devices,
    KeyIds,
    FirstKey,    \* the key the deployment begins with
    NoDevice,    \* a process with no call in progress
    NoSecret     \* a row that is not there; a call that holds no secret

ASSUME KeysAssumption  == FirstKey \in KeyIds
ASSUME NamesAssumption == NoDevice \notin Devices

VARIABLES
    target,      \* the settings of the deployment under way, or of the last one
    settings,    \* process -> the settings it was started with
    stored,      \* device -> its persisted_secret
    \* the calls
    pc, dev,
    held         \* process -> the encrypted secret it has read or is to save

calls == <<pc, dev, held>>
vars  == <<target, settings, stored, calls>>

(***************************************************************************)
(* secret_storage.py                                                       *)
(***************************************************************************)
\* The two settings: SECRET_ENCRYPTION_KEYS, and PRIMARY_..._KEY_ID.
Settings == [keys : SUBSET KeyIds, primary : KeyIds]

\* A persisted secret: the key id it names, and the key that encrypted it.
EncryptedSecret == {[key_id |-> k, under |-> k] : k \in KeyIds}

ASSUME SecretsAssumption == NoSecret \notin EncryptedSecret

\* _primary_key_id raises ImproperlyConfigured otherwise.
CanEncrypt(s) == s.primary \in s.keys

\* Slips: the key configured last encrypts; it encrypts, and the secret names
\* the primary one.
LastConfigured(s) == IF s.keys \subseteq {s.primary} THEN s.primary
                     ELSE CHOOSE k \in s.keys \ {s.primary} : TRUE
MixedUp(s)        == [key_id |-> s.primary, under |-> LastConfigured(s)]

EncryptionKey(s)  == s.primary
encrypt_secret(s) == [key_id |-> EncryptionKey(s), under |-> EncryptionKey(s)]

\* Slip: the primary key decrypts, whatever the secret names.
PrimaryDecrypts(s, e) == e.under = s.primary

\* decrypt_secret raises SecretDecryptionError otherwise.
CanDecrypt(s, e) == e.key_id \in s.keys /\ e.under = e.key_id

(***************************************************************************)
(* Initial states                                                          *)
(***************************************************************************)
FirstSettings == [keys |-> {FirstKey}, primary |-> FirstKey]

Init ==
    /\ target = FirstSettings
    /\ settings = [p \in Processes |-> FirstSettings]
    /\ stored = [d \in Devices |-> NoSecret]
    /\ pc = [p \in Processes |-> "idle"]
    /\ dev = [p \in Processes |-> NoDevice]
    /\ held = [p \in Processes |-> NoSecret]

(***************************************************************************)
(* The operator and the deployment.                                        *)
(***************************************************************************)
RolledOut == \A p \in Processes : settings[p] = target

AddKey(k) ==
    /\ RolledOut
    /\ k \notin target.keys
    /\ target' = [target EXCEPT !.keys = @ \cup {k}]
    /\ UNCHANGED <<settings, stored, calls>>

Promote(k) ==
    /\ RolledOut
    /\ k \in target.keys /\ k # target.primary
    /\ target' = [target EXCEPT !.primary = k]
    /\ UNCHANGED <<settings, stored, calls>>

Needed(k) == \E d \in Devices : stored[d] # NoSecret /\ stored[d].key_id = k

Retire(k) ==
    /\ RolledOut
    /\ k # target.primary
    /\ ~Needed(k)
    /\ target' = [target EXCEPT !.keys = @ \ {k}]
    /\ UNCHANGED <<settings, stored, calls>>

Hold(p, state, d, secret) ==
    /\ pc' = [pc EXCEPT ![p] = state]
    /\ dev' = [dev EXCEPT ![p] = d]
    /\ held' = [held EXCEPT ![p] = secret]

Return(p) == Hold(p, "idle", NoDevice, NoSecret)

\* A process is stopped, with its call, and started with the new settings.
Restart(p) ==
    /\ settings[p] # target
    /\ settings' = [settings EXCEPT ![p] = target]
    /\ Return(p)
    /\ UNCHANGED <<target, stored>>

(***************************************************************************)
(* The calls of a process.                                                 *)
(***************************************************************************)
\* enroll_totp or enroll_hotp encrypts the new secret, the adapter saves the
\* row afterwards.
Enrol(p, d) ==
    /\ pc[p] = "idle"
    /\ stored[d] = NoSecret
    /\ \A q \in Processes : dev[q] # d
    /\ CanEncrypt(settings[p])
    /\ Hold(p, "save", d, encrypt_secret(settings[p]))
    /\ UNCHANGED <<target, settings, stored>>

\* A row is read, to verify a code or to encrypt its secret again.
Read(p, d) ==
    /\ pc[p] = "idle"
    /\ stored[d] # NoSecret
    /\ Hold(p, "read", d, stored[d])
    /\ UNCHANGED <<target, settings, stored>>

Verify(p) ==
    /\ pc[p] = "read"
    /\ CanDecrypt(settings[p], held[p])
    /\ Return(p)
    /\ UNCHANGED <<target, settings, stored>>

ReEncrypt(p, d) ==
    /\ pc[p] = "read" /\ dev[p] = d
    /\ CanDecrypt(settings[p], held[p])
    /\ CanEncrypt(settings[p])
    /\ Hold(p, "update", d, encrypt_secret(settings[p]))
    /\ UNCHANGED <<target, settings, stored>>

\* An INSERT, or an UPDATE, which changes nothing when the row is gone.
Save(p, d) ==
    /\ pc[p] \in {"save", "update"} /\ dev[p] = d
    /\ stored' = IF pc[p] = "update" /\ stored[d] = NoSecret
                   THEN stored ELSE [stored EXCEPT ![d] = held[p]]
    /\ Return(p)
    /\ UNCHANGED <<target, settings>>

\* The row of a device is deleted.
Delete(d) ==
    /\ stored[d] # NoSecret
    /\ stored' = [stored EXCEPT ![d] = NoSecret]
    /\ UNCHANGED <<target, settings, calls>>

\* A call ends in an exception (SecretDecryptionError or ImproperlyConfigured
\* among them) or with its process, which is started again as it was.
Abort(p) ==
    /\ pc[p] # "idle"
    /\ Return(p)
    /\ UNCHANGED <<target, settings, stored>>

(***************************************************************************)
(* Specification                                                           *)
(***************************************************************************)
Operate == \E k \in KeyIds : AddKey(k) \/ Promote(k) \/ Retire(k)

CallOf(p) ==
    \/ \E d \in Devices : Enrol(p, d) \/ Read(p, d) \/ ReEncrypt(p, d) \/ Save(p, d)
    \/ Verify(p) \/ Abort(p)

Next ==
    \/ Operate
    \/ \E p \in Processes : Restart(p) \/ CallOf(p)
    \/ \E d \in Devices : Delete(d)

Spec == Init /\ [][Next]_vars

\* A row whose secret is not under the primary key is read to be encrypted again.
ReadAgain(p, d) == /\ Read(p, d)
                   /\ stored[d].key_id # settings[p].primary

\* A deployment that was begun is finished; encrypting again is tried until it
\* has succeeded.  Nothing is assumed of the operator.
FairSpec ==
    /\ Spec
    /\ \A p \in Processes : WF_vars(Restart(p))
    /\ \A d \in Devices : /\ SF_vars(\E p \in Processes : ReadAgain(p, d))
                          /\ SF_vars(\E p \in Processes : ReEncrypt(p, d))
                          /\ SF_vars(\E p \in Processes : Save(p, d))

(***************************************************************************)
(* The inductive invariant behind the properties.                          *)
(***************************************************************************)
\* Every process has the key, and the deployment under way keeps it.
Known(k) == k \in target.keys /\ \A p \in Processes : k \in settings[p].keys

\* The primary keys of all processes, and the next one, are known to all.
PrimariesKnown ==
    Known(target.primary) /\ \A p \in Processes : Known(settings[p].primary)

StoredKnown ==
    \A d \in Devices : stored[d] # NoSecret => Known(stored[d].key_id)

\* What a call holds is under a key of its process; what it is about to save,
\* under the primary one.
HeldFits ==
    \A p \in Processes :
        /\ pc[p] = "read" => held[p].key_id \in settings[p].keys
        /\ pc[p] \in {"save", "update"} => held[p].key_id = settings[p].primary

(***************************************************************************)
(* Properties                                                              *)
(***************************************************************************)
\* Every variable has its type; a persisted secret names the key that encrypted
\* it, and a call that runs has a device.
TypeOK ==
    /\ target \in Settings
    /\ settings \in [Processes -> Settings]
    /\ stored \in [Devices -> EncryptedSecret \cup {NoSecret}]
    /\ pc \in [Processes -> {"idle", "read", "save", "update"}]
    /\ dev \in [Processes -> Devices \cup {NoDevice}]
    /\ held \in [Processes -> EncryptedSecret \cup {NoSecret}]
    /\ \A p \in Processes :
          /\ pc[p] # "idle" => dev[p] \in Devices
          /\ pc[p] \in {"read", "save", "update"} => held[p] # NoSecret

\* Whatever is stored, every process can read, whichever deployment it comes
\* from: a code submitted anywhere is never met with a decryption error.
EveryoneReads ==
    \A p \in Processes, d \in Devices :
        stored[d] # NoSecret => CanDecrypt(settings[p], stored[d])

\* No call has reason to raise: a process can encrypt at any time, and decrypt
\* what it has read, even if another process has encrypted it again and its key
\* was retired meanwhile.
NoCallFails ==
    \A p \in Processes :
        /\ CanEncrypt(settings[p])
        /\ pc[p] = "read" => CanDecrypt(settings[p], held[p])

\* A key that is no longer the primary one is no longer needed in the end, so
\* that it can be retired: no process goes on writing under it.
OldKeyFallsIdle ==
    \A k \in KeyIds : <>[](target.primary # k) => <>[]~Needed(k)

\* What its end rests on besides fairness: once no process has the key as its
\* primary one, no row comes under it any more, not even from a call that began
\* before the key was demoted.
DemotedKeyDrains ==
    [][\A k \in KeyIds : (\A p \in Processes : settings[p].primary # k) =>
          \A d \in Devices :
              stored'[d] # NoSecret /\ stored'[d].key_id = k => stored'[d] = stored[d]]_vars

\* What the proofs show to be invariant.
Inv == TypeOK /\ PrimariesKnown /\ StoredKnown /\ HeldFits
=============================================================================
