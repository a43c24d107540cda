---------------------------- MODULE ServerOptions ----------------------------
(***************************************************************************)
(* The options of ks-apiserver on the command line                         *)
(* (pkg/server/options, cmd/apiserver/app/options), and the server made    *)
(* from them.                                                              *)
(***************************************************************************)
EXTENDS Integers

CONSTANTS
    Texts,         \* the texts in use: addresses, and paths of files
    KeyPairs,      \* the pairs <<certificate, key>> of files that fit
    NotGiven,      \* a flag that is not given
    CommandLines   \* what the flags of a command line give

(* Every address of the host, and no file.                                 *)
AnyAddress == "0.0.0.0"
NoFile     == ""

ASSUME TextsAssumption == AnyAddress \in Texts /\ NoFile \in Texts
ASSUME KeyPairsAssumption ==
    KeyPairs \subseteq (Texts \ {NoFile}) \X (Texts \ {NoFile})

ServerRunOptions ==
    [BindAddress : Texts, InsecurePort : Int, SecurePort : Int,
     TlsCertFile : Texts, TlsPrivateKey : Texts]

CommandLine ==
    [BindAddress : Texts \cup {NotGiven}, InsecurePort : Int \cup {NotGiven},
     SecurePort : Int \cup {NotGiven},
     TlsCertFile : Texts \cup {NotGiven}, TlsPrivateKey : Texts \cup {NotGiven}]

ASSUME CommandLineAssumption == CommandLines \subseteq CommandLine

NewServerRunOptions ==
    [BindAddress |-> AnyAddress, InsecurePort |-> 9090, SecurePort |-> 0,
     TlsCertFile |-> NoFile, TlsPrivateKey |-> NoFile]

(* The flags are bound to the fields of the options, and parsing overwrites *)
(* those that are given.                                                   *)
AddServerFlags(line, s) ==
    [field \in DOMAIN s |-> IF line[field] = NotGiven THEN s[field] ELSE line[field]]

(* The key pair is read for a secure port.  Nothing else is asked of the   *)
(* options: in the Validate that the command calls, the call of theirs is  *)
(* a comment (options/validation.go 24).                                   *)
LoadX509KeyPair(s) ==
    s.SecurePort # 0 => <<s.TlsCertFile, s.TlsPrivateKey>> \in KeyPairs

(* The secure port takes the place of the other; the bind address is used  *)
(* by nothing.                                                             *)
NewServer(s) ==
    [port |-> IF s.SecurePort = 0 THEN s.InsecurePort ELSE s.SecurePort,
     tls  |-> s.SecurePort # 0]

(* A port the system can be asked to listen at; 0 is any that is free.     *)
CanListen(server) == server.port \in 0..65535
=============================================================================
