------------------------------ MODULE Endpoints ------------------------------
(* api/endpoints.ts: the calls the views make, one wrapper each, those that   *)
(* GET apart from those that POST, PUT, PATCH or DELETE.  Only GET leaves the *)
(* node as it is for certain.                                                 *)

AccountAndListCalls ==
    [get |-> {"healthLiveness", "clusterHealth", "clusterSelf", "clusterStatus",
              "clusterStats", "listBlocklists", "getBlocklist", "listAllowlist",
              "listAllowlistEntries", "listSharedAllowlists", "getSharedAllowlist",
              "listProfileAllowlist"},
     set |-> {"setupCredentials", "changePassword", "createBlocklist", "updateBlocklist",
              "deleteBlocklist", "refreshBlocklist", "addAllowlist", "removeAllowlist",
              "addAllowlistRich", "importAllowlist", "createSharedAllowlist",
              "updateSharedAllowlist", "deleteSharedAllowlist", "addProfileAllowlist",
              "removeProfileAllowlist", "replaceProfileAllowlist"}]

ConfigurationCalls ==
    [get |-> {"listLocalDNS", "getSettings", "getBlockPageConfig", "getQueryLog",
              "getClusterQueryLog", "listProfiles", "getProfile", "listSchedules",
              "listScheduleBindings"},
     set |-> {"createLocalDNS", "updateLocalDNS", "deleteLocalDNS", "patchSettings",
              "patchBlockPageConfig", "createJoinToken", "transferLeadership", "removeNode",
              "nodeSelfJoin", "createProfile", "updateProfile", "deleteProfile",
              "createSchedule", "updateSchedule", "deleteSchedule", "addScheduleBinding",
              "deleteScheduleBinding"}]

ClientAndAuditCalls ==
    [get |-> {"listCategories", "getCategoryView", "getClientDohStatus", "getClient",
              "listLeases", "listAnomalies", "getDNSCacheStats", "listAudit", "checkUpgrade"},
     set |-> {"updateCategoryURL", "enableCategory", "disableCategory",
              "acknowledgeAnomaly", "purgeDNSCache", "startUpgrade", "testDomain"}]

PauseAndWebhookCalls ==
    [get |-> {"getGlobalPause", "getProfilePause", "getFirewallRules",
              "rollingUpgradeStatus", "listWebhooks"},
     set |-> {"setGlobalPause", "clearGlobalPause", "setProfilePause", "clearProfilePause",
              "rollingUpgradeApply", "createWebhook", "deleteWebhook", "testWebhook"}]

TokenAndDeviceCalls ==
    [get |-> {"listTokens", "getClientDetail", "getClientDohStatusDetail",
              "getDhcpServerStatus", "listDhcpStaticAssignments", "listDhcpLeases",
              "getDhcp6ServerStatus", "listDhcp6Leases", "getCustomRules",
              "getBackupSettings", "listBackups", "listDevices", "getDevice"},
     set |-> {"createToken", "deleteToken", "renameToken", "putDhcpServerSettings",
              "createDhcpStaticAssignment", "deleteDhcpStaticAssignment",
              "putDhcp6ServerSettings", "putCustomRules", "putBackupSettings",
              "triggerBackup", "patchProfileBlockPage", "createDevice", "updateDevice",
              "deleteDevice"}]

\* Made by hand in the views and the store, without a wrapper.
OtherCalls == [get |-> {"exportConfig"}, set |-> {"login", "logout", "importConfig"}]

Reads ==
    AccountAndListCalls.get \cup ConfigurationCalls.get \cup ClientAndAuditCalls.get
    \cup PauseAndWebhookCalls.get \cup TokenAndDeviceCalls.get \cup OtherCalls.get

Changes ==
    AccountAndListCalls.set \cup ConfigurationCalls.set \cup ClientAndAuditCalls.set
    \cup PauseAndWebhookCalls.set \cup TokenAndDeviceCalls.set \cup OtherCalls.set

Endpoint == Reads \cup Changes
Mutates(op) == op \notin Reads

=============================================================================
