------------------------------ MODULE PortalApi ------------------------------
(***************************************************************************)
(* The requests the pages send (src/api of the web interface): the method  *)
(* of each and whether the id it is about goes into the address.  Where it *)
(* does not, the server acts on the id in the body, whatever the caller    *)
(* passes as the first argument.                                           *)
(***************************************************************************)

Call(method, addressed) == [method |-> method, addressed |-> addressed]
All(names, call) == names \X {call}

Get == Call("get", FALSE)
GetAt == Call("get", TRUE)
Post == Call("post", FALSE)
PostAt == Call("post", TRUE)
PutAt == Call("put", TRUE)
DeleteAt == Call("delete", TRUE)

\* Topics: lists and saves, then what the detail page shows.
ThemeApi ==
  All({"themeListByCluster", "applicantList", "themeQuery", "envList"}, Get)
  \cup All({"createThemeSave"}, Post)
  \cup All({"editThemeSave", "approvalTheme", "configureTheme", "syncTheme"}, PutAt)
  \cup All({"deleteTheme"}, DeleteAt)
ThemeDetailApi ==
  All({"themeMonitorTps", "themeMonitorDailyMsg", "getClientIp", "clientCostRate",
       "clientSuccessRate", "clientFailRate", "clientDistributeRate", "clientMsgSize"}, Get)
  \cup All({"getThemeDetail"}, GetAt) \cup All({"sendThemeMsg"}, Post)

\* Consumer groups: no save names its group in the address.
ConsumerApi ==
  All({"queryApprovedConsumers", "getConsumersByClusterId", "consumerQuery",
       "getConsumerRocketDetail", "getConsumerKafkaDetail"}, Get)
  \cup All({"createConsumerSave", "editConsumerSave", "approvalConsumer", "consumeDelete",
          "configUpdateGated", "consumerSync", "consumerZmsRegister"}, Post)
ConsumerMetricsApi ==
  All({"consumerMonitorTps", "topicMonitorTps", "queryConsumerUserCostTimeMs",
       "queryConsumeSuccessRate", "queryConsumeFailureRate"}, Get)

AlertApi ==
  All({"environmentList", "clusterList", "alertNamesList", "alertsQuery", "uniqueCheck",
       "queryEnvironmentRefByTopicName", "queryEnvironmentRefByConsumerName"}, Get)
  \cup All({"createAlertSave"}, Post) \cup All({"editAlertSave"}, PutAt)
  \cup All({"deleteAlert"}, DeleteAt)

\* Hosts: the address holds the environment, the body the hosts.
HostApi ==
  All({"hostListQuery", "listHostInstanceByEnvId"}, Get)
  \cup All({"hostDetail", "getInstallUrl"}, GetAt)
  \cup All({"hostDisabled", "hostEnabled"}, Post)

\* A migration is asked for with a GET.
TransferApi ==
  All({"queryClusters", "migrateClusterTopicZk", "migrateClusterConsumerZk", "migrateZk",
       "clusterRecover"}, Get)

\* The validations of names by form items, by their keys in api-url.js.
ValidationApi == All({"validCode"}, Get)

HomeApi == All({"getListService", "getclusterMetric", "queryClusterOffset"}, Get)
EnvApi ==
  All({"addEnv"}, Post) \cup All({"renameEnv", "loadDatabase"}, PutAt)
  \cup All({"listByEnvIdAndServiceType", "listEnvironment"}, Get)

\* Services and their instances; a comparison and processes are asked for by address.
ServiceApi ==
  All({"addService", "addServiceInstance", "startServiceInstance", "stopServiceInstance",
       "restartServiceInstance", "saveServiceInstanceConfig"}, Post)
  \cup All({"renameService"}, PutAt) \cup All({"deleteService", "deleteServiceInstance"}, DeleteAt)
  \cup All({"validServerName", "queryHostServiceInstance", "getServiceInstanceConfig",
          "getServiceAndEnvById", "getServiceAndEnvByInstanceId"}, Get)
  \cup All({"compareServiceProperty", "getAddServiceInstanceConfig"}, GetAt)
ProcessApi ==
  All({"getRunningStatus", "tailProcessStderrLog", "tailProcessStdoutLog"}, GetAt)
  \cup All({"startProcess", "stopProcess"}, PostAt)

\* The consoles: all are questions, but for the resets of offsets and the permissions.
RocketmqApi ==
  All({"statsAll", "getPerm", "topicStatus", "getBrokerConfig", "consumerStatusAll",
       "cmdClusterList", "topicInMsgTop"}, Get)
  \cup All({"resetOffset", "updatePerm"}, Post)
KafkaApi == All({"topicSummary", "consumerSummary"}, Get) \cup All({"resetOffset"}, Post)
MessageApi == All({"viewByKey", "viewByMsgId"}, Get)
DelayApi == All({"delayRocketQuery", "delayKafkaQuery", "allDelayQuery"}, Get)

Api ==
  ThemeApi \cup ThemeDetailApi \cup ConsumerApi \cup ConsumerMetricsApi \cup AlertApi \cup HostApi
  \cup TransferApi \cup ValidationApi \cup HomeApi \cup EnvApi \cup ServiceApi \cup ProcessApi
  \cup RocketmqApi \cup KafkaApi \cup MessageApi \cup DelayApi

Addressed(op) == \E call \in {GetAt, PostAt, PutAt, DeleteAt} : <<op, call>> \in Api

\* The ids a request is about, for the server: those in the address, else those in the body.
Named(op, address, body) == IF Addressed(op) THEN address ELSE body
=============================================================================
