----------------------------- MODULE TlsMaterial -----------------------------
(***************************************************************************)
(* The key and the certificate webd serves with, made at its first start   *)
(* (EnsureTlsMaterial and GenerateSelfSignedCertificate, web_server.cpp),  *)
(* and the start that loads them, which S45webd repeats until it succeeds. *)
(*                                                                         *)
(* A file holds the number of the pair it belongs to. What PEM_write puts  *)
(* in a file is less than stdio's buffer, so it gets there at fclose, whose*)
(* result nobody looks at: from fopen on the file exists and is cut short. *)
(***************************************************************************)
EXTENDS Naturals

CONSTANTS Pairs,        \* key pairs, more than two files can hold
          Absent, Short

ASSUME PairsAssumption ==
  /\ \A p, q \in Pairs \cup {Absent, Short} : \E r \in Pairs : r # p /\ r # q
  /\ Absent \notin Pairs /\ Short \notin Pairs /\ Absent # Short

VARIABLES key, cert,   \* key_path_ and cert_path_
          keyDisk, certDisk,   \* and what the card holds
          pair,        \* the pair being made or served
          start        \* where WebServer::Start is

files == <<key, cert>>
disks == <<keyDisk, certDisk>>
tlsVars == <<files, disks, pair, start>>

TlsInit ==
  /\ key = Absent /\ cert = Absent
  /\ keyDisk = Absent /\ certDisk = Absent
  /\ pair = Absent /\ start = "down"

Usable == key \in Pairs /\ cert = key
Damaged == key # Absent /\ cert # Absent /\ ~Usable

-----------------------------------------------------------------------------
(* mutant: one of the files is enough                                      *)
EnsureOneOfThem ==
  /\ start = "down"
  /\ IF cert # Absent \/ key # Absent
     THEN start' = "load" /\ UNCHANGED pair
     ELSE start' = "open key" /\ pair' \in Pairs \ {key, cert}
  /\ UNCHANGED <<files, disks>>

EnsureTlsMaterial ==
  /\ start = "down"
  /\ IF cert # Absent /\ key # Absent
     THEN start' = "load" /\ UNCHANGED pair
     ELSE start' = "open key" /\ pair' \in Pairs \ {key, cert}
  /\ UNCHANGED <<files, disks>>

OpenKey ==
  /\ start = "open key"
  /\ key' = Short
  /\ start' = "open cert"
  /\ UNCHANGED <<cert, disks, pair>>

OpenCert ==
  /\ start = "open cert"
  /\ cert' = Short
  /\ start' = "close key"
  /\ UNCHANGED <<key, disks, pair>>

(* The cleanup closes the key file, then the certificate.                  *)
CloseKey ==
  /\ start = "close key"
  /\ key' = pair
  /\ start' = "close cert"
  /\ UNCHANGED <<cert, disks, pair>>

CloseCert ==
  /\ start = "close cert"
  /\ cert' = pair
  /\ start' = "load"
  /\ UNCHANGED <<key, disks, pair>>

(* SSL_CTX_use_certificate_file and SSL_CTX_use_PrivateKey_file.           *)
Load ==
  /\ start = "load"
  /\ IF Usable THEN start' = "up" /\ pair' = key
               ELSE start' = "down" /\ UNCHANGED pair
  /\ UNCHANGED <<files, disks>>

StartStep ==
  EnsureTlsMaterial \/ OpenKey \/ OpenCert \/ CloseKey \/ CloseCert \/ Load

-----------------------------------------------------------------------------
(* A file that cannot be opened ends the start; what was written is closed,*)
(* and gets there unless the disk is full.                                 *)
OpenFails ==
  /\ start \in {"open key", "open cert"}
  /\ IF start = "open cert"
     THEN key' \in {key, pair}
     ELSE UNCHANGED key
  /\ start' = "down"
  /\ UNCHANGED <<cert, disks, pair>>

(* A full disk: fclose cannot write what is in the buffer.                 *)
CloseFails ==
  /\ start \in {"close key", "close cert"}
  /\ start' = IF start = "close key" THEN "close cert" ELSE "load"
  /\ UNCHANGED <<files, disks, pair>>

(* Dying while it loads changes no more than dying just after.             *)
WebdDies ==
  /\ start \notin {"down", "load"}
  /\ start' = "down"
  /\ UNCHANGED <<files, disks, pair>>

TlsWriteBack ==
  /\ \/ keyDisk' = key /\ UNCHANGED certDisk
     \/ certDisk' = cert /\ UNCHANGED keyDisk
  /\ UNCHANGED <<files, pair, start>>

(* What the card holds, or of a file not written back what it has held or  *)
(* a part of it.                                                           *)
Survives(content, held) == IF content = held THEN {held} ELSE {held, content, Short}

TlsPowerCut ==
  /\ key' \in Survives(key, keyDisk) /\ cert' \in Survives(cert, certDisk)
  /\ keyDisk' = key' /\ certDisk' = cert'
  /\ start' = "down"
  /\ UNCHANGED pair

TlsFault == OpenFails \/ CloseFails \/ WebdDies \/ TlsPowerCut

TlsNext == StartStep \/ TlsWriteBack \/ TlsFault

=============================================================================
