---------------------------- MODULE MCApiServer ----------------------------
(* Values for TLC: URL forms with names that are also keywords, every path *)
(* of up to five segments over a few words behind the prefixes of APIs,    *)
(* and some behind another.                                                *)
EXTENDS ApiServer, SequencesExt

Words == {"watch", "namespaces", "clusters"}

MCForms ==
    {f \in [prefix : APIPrefixes, cluster : {"", "namespaces"}, group : {"", "clusters"},
            version : {"v"}, special : {"", "watch", "proxy"},
            workspace : {"", "watch"},
            namespace : {"", "workspaces"},
            resource : {"devops", "status", "namespaces"}, name : {"", "clusters"},
            subresource : {"", "status"}] :
        IsForm(f)}

MCPaths ==
    {<<p>> \o q : p \in {"api", "kapi", "kapis"}, q \in SeqOf(Words, 4)} \cup
    {<<"oauth">> \o q : q \in SeqOf(Words, 1)} \cup
    {<<>>} \cup {Root \o route[2] : route \in Routes}

(* The calls of the typed client, with names that are also keywords.       *)
MCCalls ==
    {c \in [op : Ops, ns : {"", "workspaces", "status"}, name : {"", "watch"},
            subresource : {"", "status"}] :
        IsCall(c)}

(* Options a client can be built from and options without a burst.         *)
Paths    == {"", "kube.conf"}
Configs  == {"kube.conf"}
Limits   == {0, 2}
MCLoaded == [kubeconfig : Configs, qps : {2}, burst : Limits]

(* Command lines: none of the flags; no port; a secure port with a key     *)
(* pair, with a key that is not there and with one that does not fit; and  *)
(* ports that are none.                                                    *)
MCTexts    == {"", "0.0.0.0", "none", "cert", "key", "other"}
MCKeyPairs == {<<"cert", "key">>}
Flags(insecure, secure, cert, key) ==
    [BindAddress |-> NotGiven, InsecurePort |-> insecure, SecurePort |-> secure,
     TlsCertFile |-> cert, TlsPrivateKey |-> key]
MCCommandLines ==
    {Flags(NotGiven, NotGiven, NotGiven, NotGiven), Flags(0, NotGiven, NotGiven, NotGiven),
     Flags(70000, NotGiven, NotGiven, NotGiven), Flags(NotGiven, -1, "cert", "key")} \cup
    {Flags(NotGiven, 9443, "cert", key) : key \in {NotGiven, "key", "other", "none"}}

(* A watch of one name in a workspace, and a list of a name that is none;  *)
(* the documented forms and the calls have requests without options.       *)
MCOptions ==
    {[watch |-> TRUE, name |-> "n", workspace |-> "w"],
     [watch |-> FALSE, name |-> ".", workspace |-> ""]}
=============================================================================
