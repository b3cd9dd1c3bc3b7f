--------------------------- MODULE MCAdapterStartup ---------------------------
(***************************************************************************)
(* The inputs of AdapterStartup for TLC: specs around one that is right,   *)
(* with every attribute map over three names and the values that matter,   *)
(* and contracts that differ from the compiled ones in one way each.       *)
(***************************************************************************)
EXTENDS AdapterStartup

MCAttributeNames == {"domain-id", "rmw-implementation", "shell"}

MCAttributeMaps == UNION {[names -> {"", "0", "42", "rmw_a"}] :
                           names \in SUBSET MCAttributeNames}

Scopes == [kind : {NativeKind}, key : {"key1", "key2"},
           attributes : MCAttributeMaps]
            \cup {[kind |-> k, key |-> "key1",
                   attributes |-> [n \in {"domain-id"} |-> "0"]] :
                   k \in {"none", "other"}}
            \cup {[kind |-> NativeKind, key |-> "malformed",
                   attributes |-> [n \in {"domain-id"} |-> "0"]]}

\* Right payloads with every scope, and wrong payloads with the scope that
\* would fit them.
MCInstanceSpecs ==
    [wellFormed : {TRUE}, domainId : {0, 42},
     rmwImplementation : {"", "rmw_a"}, scope : Scopes]
    \cup {[wellFormed |-> w, domainId |-> d, rmwImplementation |-> m,
           scope |-> ScopeOf([domain_id |-> d, rmw_implementation |-> m,
                              scope_key |-> "key1"])] :
           w \in BOOLEAN, d \in {-1, 0, 232, 233}, m \in {"", "not canonical"}}

MCSubjects == {s \in Scopes : s.key # "malformed"}

\* One contract of each kind that is not the compiled one.
MCContracts ==
    UNION {{CompiledContract(c),
            [CompiledContract(c) EXCEPT !.identity = "other"],
            [CompiledContract(c) EXCEPT !.endpoints = @ \o @],
            [CompiledContract(c) EXCEPT !.endpoints = <<>>],
            [CompiledContract(c) EXCEPT !.endpoints[1].id = "other"],
            [CompiledContract(c) EXCEPT !.endpoints[1].deviations =
                                            {"maximum_timeout_ms"}]} :
           c \in Capabilities}
    \cup {[CompiledContract("publish") EXCEPT !.capability = "other"]}

\* Contracts in every number and order, with one right spec; and every spec,
\* with the right contracts.
ContractLists == UNION {[1 .. n -> MCContracts] : n \in 0 .. 2}
                   \cup [1 .. 3 -> {CompiledContract(c) : c \in Capabilities}]

RightSpec == [wellFormed |-> TRUE, domainId |-> 42, rmwImplementation |-> "rmw_a",
              scope |-> ScopeOf([domain_id |-> 42, scope_key |-> "key1",
                                 rmw_implementation |-> "rmw_a"])]

RightContracts == <<CompiledContract("service"), CompiledContract("publish")>>

MCBootstraps == [spec : {RightSpec}, contracts : ContractLists]
                  \cup [spec : MCInstanceSpecs, contracts : {RightContracts}]

MCInherited == {[ROS_DOMAIN_ID |-> "7", RMW_IMPLEMENTATION |-> "rmw_a"]}
==============================================================================
