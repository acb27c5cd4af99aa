---------------------------- MODULE RoleCatalog ----------------------------
(***************************************************************************)
(* What the built-in roles grant (internal/kernel/authz/rbac.go,           *)
(* roleGrants).  The code tests the words of an action string; an action   *)
(* here is the area those words put it in, and its verb.  Roles differ by  *)
(* GUID, so the first case of the code's switch that fits is the only one. *)
(***************************************************************************)

AllVerbs == {"read", "write", "send", "receive"}

\* The actions the handlers ask for.  A delete, and every .../action that is not
\* named after another verb, counts as a write.
KeyVaultAreas == {"vaults/secrets", "vaults/keys", "vaults/certificates"}
ItemAreas     == {"blobServices", "queueServices", "tableServices",
                  "configurationStores/data", "documentdb/items"}
MessageAreas  == {"ServiceBus/messages", "EventHub/messages"}

DataAction ==
    [area : KeyVaultAreas \cup ItemAreas, verb : {"read", "write"}]
    \cup [area : MessageAreas, verb : {"send", "receive"}]
    \cup [area : {"EventGrid/topics"}, verb : {"send"}]
    \cup [area : {"registries/pull"}, verb : {"read"}]
    \cup [area : {"openai"}, verb : {"write"}]

KeyAreas == {"listKeys", "listClusterAdminCredential", "listClusterUserCredential"}

ControlAction ==
    [area : {"arm", "vaults", "roleAssignments", "workspaces"}, verb : {"read", "write"}]
    \cup [area : {"workspaces/query", "ResourceGraph/resources"}, verb : {"read"}]
    \cup [area : KeyAreas, verb : {"write"}]

Action == DataAction \cup ControlAction

isDedicatedDataPlaneAction(a) == a \in DataAction

isWorkspaceQueryAction(a) == a.area = "workspaces/query"

isSecretDisclosureAction(a) == a.area \in KeyAreas \cup {"configurationStores/data"}

isReadLikeAction(a) ==
    /\ ~ isWorkspaceQueryAction(a)
    /\ ~ isSecretDisclosureAction(a)
    /\ ~ isDedicatedDataPlaneAction(a)
    /\ a.verb = "read"

\* The roles of one area: all its verbs, or some.
AreaRoles ==
    LET role(r, areas, verbs) == [role |-> r, areas |-> areas, verbs |-> verbs]
        all(r, area) == role(r, {area}, AllVerbs)
    IN  { all("AcrPull", "registries/pull"),
          all("Storage Blob Data Owner", "blobServices"),
          all("Storage Blob Data Contributor", "blobServices"),
          role("Storage Blob Data Reader", {"blobServices"}, {"read"}),
          all("Storage Queue Data Contributor", "queueServices"),
          role("Storage Queue Data Reader", {"queueServices"}, {"read"}),
          all("Storage Table Data Contributor", "tableServices"),
          role("Storage Table Data Reader", {"tableServices"}, {"read"}),
          all("Azure Event Hubs Data Owner", "EventHub/messages"),
          role("Azure Event Hubs Data Sender", {"EventHub/messages"}, {"send"}),
          role("Azure Event Hubs Data Receiver", {"EventHub/messages"}, {"receive"}),
          all("Azure Service Bus Data Owner", "ServiceBus/messages"),
          role("Azure Service Bus Data Sender", {"ServiceBus/messages"}, {"send", "write"}),
          role("Azure Service Bus Data Receiver", {"ServiceBus/messages"}, {"receive", "read"}),
          all("EventGrid Data Sender", "EventGrid/topics"),
          all("App Configuration Data Owner", "configurationStores/data"),
          role("App Configuration Data Reader", {"configurationStores/data"}, {"read"}),
          all("Cosmos DB Data Contributor", "documentdb/items"),
          role("Cosmos DB Data Reader", {"documentdb/items"}, {"read"}),
          all("Cognitive Services OpenAI User", "openai"),
          all("AKS Cluster Admin", "listClusterAdminCredential"),
          all("AKS Cluster User", "listClusterUserCredential"),
          role("Key Vault Administrator", KeyVaultAreas \cup {"vaults"}, AllVerbs),
          all("Key Vault Secrets Officer", "vaults/secrets"),
          role("Key Vault Secrets User", {"vaults/secrets"}, {"read"}) }

ReaderRoles == {"Reader", "Monitoring Reader"}

BuiltInRole ==
    {t.role : t \in AreaRoles} \cup ReaderRoles
    \cup {"Owner", "Contributor", "Log Analytics Reader", "Log Analytics Data Reader"}

roleGrants(role, a) ==
    \/ role = "Owner" /\ ~ isDedicatedDataPlaneAction(a)
    \/ role = "Contributor" /\ a.area # "roleAssignments" /\ ~ isDedicatedDataPlaneAction(a)
    \/ role = "Log Analytics Data Reader"
       /\ (isWorkspaceQueryAction(a) \/ a = [area |-> "workspaces", verb |-> "read"])
    \/ role = "Log Analytics Reader" /\ (isReadLikeAction(a) \/ isWorkspaceQueryAction(a))
    \/ role \in ReaderRoles /\ isReadLikeAction(a)
    \/ \E t \in AreaRoles : t.role = role /\ a.area \in t.areas /\ a.verb \in t.verbs

=============================================================================
