------------------------------ MODULE CertStore ------------------------------
(***************************************************************************)
(* server/tls.rs: ReloadableCertificateStore.  reload() builds a new       *)
(* CertificateStore from the certificate file and the key file, one after  *)
(* the other and outside the lock, and swaps it in; an operator replaces   *)
(* the two files at any time.                                              *)
(*                                                                         *)
(* A file is the number of the certificate it belongs to, and whole or     *)
(* damaged.  A damaged one is rejected when it is missing, is named .pem   *)
(* or begins like PEM; any other data is taken for DER as it is, and found *)
(* to be garbage only when an acceptor is made of it.  One reload runs at  *)
(* a time, as the file watcher of the operations guide does it.            *)
(***************************************************************************)
EXTENDS Naturals

CONSTANT MaxVersion     \* bound: certificates the operator installs

ASSUME CertStoreAssumption == MaxVersion \in Nat \ {0}

Version == 1..MaxVersion
Garbage == 0            \* bytes that are no certificate and no key
Content == Version \cup {Garbage}
File == {"cert", "key"}

VARIABLES
    disk,       \* the version in each file
    form,       \* each file: "whole", "rejected" or "raw" (taken for DER)
    store,      \* the CertificateStore behind the RwLock
    loading,    \* where reload() is: "idle", "key" or "swap"
    loaded,     \* what it has read
    begun,      \* the certificate it found on disk
    promised    \* the same, of the last reload that returned Ok

certVars == <<disk, form, store, loading, loaded, begun, promised>>

CertTypeOK ==
    /\ disk \in [File -> Version]
    /\ {store, loaded} \subseteq [File -> Content]
    /\ form \in [File -> {"whole", "rejected", "raw"}]
    /\ loading \in {"idle", "key", "swap"}
    /\ begun \in Content /\ promised \in Content

First == [f \in File |-> 1]

\* from_paths has loaded the first pair.
CertInit ==
    /\ disk = First /\ store = First /\ loaded = First
    /\ form = [f \in File |-> "whole"] /\ loading = "idle"
    /\ begun = 1 /\ promised = 1

\* The operator installs a new file, or begins to write one.
Install(f) ==
    /\ disk[f] < MaxVersion
    /\ disk' = [disk EXCEPT ![f] = @ + 1]
    /\ form' = [form EXCEPT ![f] = "whole"]
    /\ UNCHANGED <<store, loading, loaded, begun, promised>>

Truncate(f) ==
    /\ form[f] = "whole" /\ disk[f] < MaxVersion
    /\ \E damage \in {"rejected", "raw"} :
           form' = [form EXCEPT ![f] = damage]
    /\ UNCHANGED <<disk, store, loading, loaded, begun, promised>>

\* What load_cert_chain and load_private_key make of a file.
Read(f) == IF form[f] = "raw" THEN Garbage ELSE disk[f]

\* load_cert_chain, after both files were seen to exist.
LoadCert ==
    /\ loading = "idle"
    /\ form["cert"] # "rejected"
    /\ loading' = "key"
    /\ loaded' = [loaded EXCEPT !.cert = Read("cert")]
    /\ begun' = Read("cert")
    /\ UNCHANGED <<disk, form, store, promised>>

\* load_private_key and the root certificates.
LoadKey ==
    /\ loading = "key"
    /\ form["key"] # "rejected"
    /\ loading' = "swap"
    /\ loaded' = [loaded EXCEPT !.key = Read("key")]
    /\ UNCHANGED <<disk, form, store, begun, promised>>

\* A key or a root certificate that cannot be loaded ends reload() with an
\* error, as a rejected certificate does before; the store stays.
LoadFail ==
    /\ loading = "key"
    /\ loading' = "idle"
    /\ UNCHANGED <<disk, form, store, loaded, begun, promised>>

\* The write lock: reload() would return Ok without the swap if it were
\* poisoned, but the assignment is all that is done under it.
Swap ==
    /\ loading = "swap"
    /\ loading' = "idle"
    /\ store' = loaded
    /\ promised' = begun
    /\ UNCHANGED <<disk, form, loaded, begun>>

CertNext ==
    \/ \E f \in File : Install(f) \/ Truncate(f)
    \/ LoadCert \/ LoadKey \/ LoadFail \/ Swap

\* with_single_cert: rustls refuses what it cannot parse, and a key that does
\* not belong to the chain.
Usable == store.cert = store.key /\ store.cert # Garbage

=============================================================================
