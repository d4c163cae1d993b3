----------------------------- MODULE Blueprints -----------------------------
(***************************************************************************)
(* The scripts of the cloud service blueprints below src/blueprints        *)
(* as data for ResourceLifecycle: the steps of create.py and of delete.py  *)
(* that change the resource or the cloud, the fields sync.py returns and   *)
(* its RESOURCE_IDENTIFIER.                                                *)
(*                                                                         *)
(* "item" is what the blueprint is about, "host" the server below it.      *)
(***************************************************************************)
EXTENDS Sequences

LOCAL Step(op, keys, kind) == [op |-> op, keys |-> keys, kind |-> kind]
SaveKeys(ks) == Step("Save", ks, "item")
CheckFree(kind) == Step("Check", {}, kind)
WarnIfThere(kind) == Step("Warn", {}, kind)
MakeOne(kind) == Step("Make", {}, kind)
TryToMake(kind) == Step("TryMake", {}, kind)
UpsertOne(kind) == Step("Upsert", {}, kind)
NeedKeys(ks) == Step("Need", ks, "item")
NeedOrQuit(ks) == Step("NeedOrQuit", ks, "item")
DropOne(kind) == Step("Drop", {}, kind)
DropAny(kind) == Step("DropIfThere", {}, kind)
TryToDrop(kind) == Step("TryDrop", {}, kind)
DropFirstListed(kind) == Step("DropNearest", {}, kind)
MayGiveUp == Step("GiveUp", {}, "item")
MayForget == Step("Forget", {}, "item")

AllKeys == {"name", "place", "handler"}
-----------------------------------------------------------------------------
(* Azure: servers.create and create_or_update take over what is there, and *)
(* deleting what is absent is no error.                                    *)

\* The server's name has a random suffix; it is the place of the database.
AzureMysqlCreate ==
    <<SaveKeys(AllKeys), CheckFree("host"), UpsertOne("host"), UpsertOne("item")>>
AzureMysqlDelete == <<NeedKeys(AllKeys), DropAny("item"), DropAny("host")>>
AzureMysqlSync == [finds |-> AllKeys, ident |-> {"name", "place"}, gap |-> FALSE]

\* The server is called <database>-server; discovery looks at the database only.
AzureMariadbCreate ==
    <<SaveKeys(AllKeys), CheckFree("host"), UpsertOne("host"), UpsertOne("item")>>
AzureMariadbDelete == <<NeedKeys(AllKeys), DropAny("item"), DropAny("host")>>
AzureMariadbSync == [finds |-> AllKeys, ident |-> {"name"}, gap |-> FALSE]

AzurePostgresCreate ==
    <<SaveKeys(AllKeys), CheckFree("host"), UpsertOne("host"), UpsertOne("item")>>
AzurePostgresDelete == <<NeedKeys(AllKeys), DropAny("item"), DropAny("host")>>
AzurePostgresSync == [finds |-> AllKeys, ident |-> {"name"}, gap |-> FALSE]

\* azure_database, the id Azure gives, tells name, server and resource group.
AzureSqlDatabaseCreate == <<UpsertOne("host"), UpsertOne("item"), SaveKeys(AllKeys)>>
AzureSqlDatabaseDelete == <<NeedKeys(AllKeys), DropAny("item"), DropAny("host")>>
AzureSqlDatabaseSync == [finds |-> AllKeys, ident |-> {"name", "place"}, gap |-> FALSE]

\* Names of servers, caches and accounts are global; the place is the group.
AzureSqlServerCreate == <<SaveKeys(AllKeys), CheckFree("item"), UpsertOne("item")>>
AzureSqlServerDelete == <<NeedKeys(AllKeys), DropAny("item")>>
AzureSqlServerSync == [finds |-> AllKeys, ident |-> {"name"}, gap |-> FALSE]

AzureRedisCreate == <<SaveKeys(AllKeys), UpsertOne("item")>>
AzureRedisDelete == <<NeedKeys(AllKeys), DropAny("item")>>
AzureRedisSync == [finds |-> AllKeys, ident |-> {"name"}, gap |-> FALSE]

\* Discovery returns no resource group.
AzureStorageCreate == <<UpsertOne("item"), SaveKeys(AllKeys)>>
AzureStorageDelete == <<NeedKeys(AllKeys), DropAny("item")>>
AzureStorageSync == [finds |-> {"name", "handler"}, ident |-> {"name"}, gap |-> TRUE]

AzureCosmosCreate == <<UpsertOne("item"), SaveKeys(AllKeys)>>
AzureCosmosDelete == <<NeedKeys(AllKeys), DropAny("item")>>
AzureCosmosSync == [finds |-> AllKeys, ident |-> {"name"}, gap |-> FALSE]

\* The place is the storage account, the handler its key.  Discovery writes
\* and compares azure_queue_name, a field no other script knows.
AzureQueueCreate == <<CheckFree("item"), UpsertOne("item"), SaveKeys(AllKeys)>>
AzureQueueDelete == <<NeedKeys(AllKeys), DropAny("item")>>
AzureQueueSync == [finds |-> {"alias", "place", "handler"}, ident |-> {"alias"}, gap |-> TRUE]

\* azure_container_id joins the container and its account: the alias and the
\* place.  Discovery leaves out the container's own name.
AzureContainerCreate == <<SaveKeys(AllKeys \cup {"alias"}), MakeOne("item")>>
AzureContainerDelete == <<NeedKeys(AllKeys), DropOne("item")>>
AzureContainerSync ==
    [finds |-> {"alias", "place", "handler"}, ident |-> {"alias", "place"}, gap |-> TRUE]

\* The place is the storage account.  A file that is there is overwritten, with
\* a warning and no field saved.  Discovery leaves out the share.
AzureFileCreate == <<WarnIfThere("item"), UpsertOne("item"), SaveKeys(AllKeys \cup {"alias"})>>
AzureFileDelete == <<NeedKeys(AllKeys), DropOne("item")>>
AzureFileSync == [finds |-> {"alias", "place", "handler"}, ident |-> {"alias"}, gap |-> TRUE]

AzureBlobCreate == <<UpsertOne("item"), SaveKeys(AllKeys)>>
AzureBlobDelete == <<NeedKeys(AllKeys), DropAny("item")>>
AzureBlobSync == [finds |-> AllKeys, ident |-> {"name"}, gap |-> FALSE]

\* Two resource groups may each have a security group of one name.
AzureNsgCreate == <<UpsertOne("item"), SaveKeys(AllKeys)>>
AzureNsgDelete == <<NeedKeys(AllKeys), DropAny("item")>>
AzureNsgSync == [finds |-> AllKeys, ident |-> {"name"}, gap |-> FALSE]

\* The plan below the application is never deleted.
AzureWebAppCreate == <<UpsertOne("host"), UpsertOne("item"), SaveKeys({"name", "place"})>>
AzureWebAppDelete == <<NeedKeys({"name", "place"}), DropAny("item")>>
AzureWebAppSync == [finds |-> {"name", "place"}, ident |-> {"name", "place"}, gap |-> FALSE]

\* The place is the security group, taken over or made.  Discovery compares the
\* group alone: all the rules of a group are one resource.
AzureSecurityRuleCreate == <<UpsertOne("host"), UpsertOne("item"), SaveKeys(AllKeys)>>
AzureSecurityRuleDelete == <<NeedKeys(AllKeys), DropAny("item")>>
AzureSecurityRuleSync == [finds |-> AllKeys, ident |-> {"place"}, gap |-> FALSE]

\* Discovery joins the resource group to the network's name; Azure knows no
\* network of that name, and deletes nothing.
AzureVirtualNetworkCreate == <<UpsertOne("item"), SaveKeys(AllKeys)>>
AzureVirtualNetworkDelete == <<NeedKeys(AllKeys), DropAny("item")>>
AzureVirtualNetworkSync ==
    [finds |-> AllKeys \cup {"misnamed"}, ident |-> {"misnamed", "place"}, gap |-> TRUE]

\* Workspaces, factories and clusters are deleted by the id that Azure gives,
\* which tells name and resource group.  Without a handler there is nothing to
\* delete, and what cannot be deleted twice is a warning.
AzureDatabricksCreate == <<UpsertOne("item"), SaveKeys(AllKeys)>>
AzureDatabricksDelete == <<NeedOrQuit({"handler"}), NeedKeys(AllKeys), TryToDrop("item")>>
AzureDatabricksSync == [finds |-> AllKeys, ident |-> {"name", "place"}, gap |-> FALSE]

AzureDataFactoryCreate == <<UpsertOne("item"), SaveKeys(AllKeys)>>
AzureDataFactoryDelete == <<NeedOrQuit({"handler"}), NeedKeys(AllKeys), TryToDrop("item")>>
AzureDataFactorySync == [finds |-> AllKeys, ident |-> {"name", "place"}, gap |-> FALSE]

\* The template makes the cluster; no id recorded, nothing to delete.
AzureK8sCreate == <<UpsertOne("item"), SaveKeys(AllKeys)>>
AzureK8sDelete == <<NeedOrQuit(AllKeys), TryToDrop("item")>>
AzureK8sSync == [finds |-> AllKeys, ident |-> {"name", "place"}, gap |-> FALSE]
-----------------------------------------------------------------------------
(* AWS: a name that is taken is refused, deleting what is absent an error.  *)
(* The place is the region, or the environment that stands for it.         *)

\* A bucket's name is all that its teardown needs, whatever the region.
AwsS3BucketCreate == <<SaveKeys({"name", "handler"}), MakeOne("item")>>
AwsS3BucketDelete == <<NeedKeys({"name", "handler"}), DropOne("item")>>
AwsS3BucketSync == [finds |-> {"name", "handler"}, ident |-> {"name"}, gap |-> FALSE]

AwsMysqlCreate == <<SaveKeys(AllKeys), MakeOne("item")>>
AwsMysqlDelete == <<NeedKeys(AllKeys), DropOne("item")>>
AwsMysqlSync == [finds |-> AllKeys, ident |-> {"name"}, gap |-> FALSE]

\* A ClientError while it waits for the database makes create.py call
\* resource.delete().
MariaDbCreate == <<SaveKeys(AllKeys), MakeOne("item"), MayForget>>
MariaDbDelete == <<NeedKeys(AllKeys), DropOne("item")>>
MariaDbSync == [finds |-> AllKeys, ident |-> {"name"}, gap |-> FALSE]

AwsDynamoDbCreate == <<MakeOne("item"), SaveKeys(AllKeys)>>
AwsDynamoDbDelete == <<NeedKeys(AllKeys), DropOne("item")>>
AwsDynamoDbSync == [finds |-> AllKeys, ident |-> {"name"}, gap |-> FALSE]

AwsElasticCacheCreate == <<MakeOne("item"), SaveKeys(AllKeys)>>
AwsElasticCacheDelete == <<NeedKeys({"name", "place"}), DropOne("item")>>
AwsElasticCacheSync == [finds |-> AllKeys, ident |-> {"name"}, gap |-> FALSE]

AwsRedshiftCreate == <<MakeOne("item"), SaveKeys(AllKeys)>>
AwsRedshiftDelete == <<NeedKeys({"name", "place"}), DropOne("item")>>
AwsRedshiftSync == [finds |-> {"name", "place"}, ident |-> {"name"}, gap |-> FALSE]

\* Both scripts return nothing when the handler gives them no wrapper.
AwsDocumentDbCreate == <<MayGiveUp, MakeOne("item"), SaveKeys(AllKeys)>>
AwsDocumentDbDelete == <<NeedKeys(AllKeys), MayGiveUp, DropOne("item")>>
AwsDocumentDbSync == [finds |-> AllKeys, ident |-> {"name"}, gap |-> FALSE]

\* AWS generates the ids of file systems and volumes.
EfsCreate == <<MakeOne("item"), SaveKeys(AllKeys)>>
EfsDelete == <<NeedKeys(AllKeys), DropOne("item")>>
EfsSync == [finds |-> AllKeys, ident |-> {"name", "place"}, gap |-> FALSE]

AwsEbsCreate == <<MakeOne("item"), SaveKeys(AllKeys)>>
AwsEbsDelete == <<NeedKeys(AllKeys), DropOne("item")>>
AwsEbsSync == [finds |-> AllKeys, ident |-> {"name", "place"}, gap |-> FALSE]

AwsFsxCreate == <<MakeOne("item"), SaveKeys(AllKeys)>>
AwsFsxDelete == <<NeedKeys(AllKeys), DropOne("item")>>
AwsFsxSync == [finds |-> AllKeys, ident |-> {"name", "place"}, gap |-> FALSE]

\* Creating a vault that is there and deleting one that is not both succeed.
AwsGlacierCreate == <<SaveKeys(AllKeys), UpsertOne("item")>>
AwsGlacierDelete == <<NeedKeys(AllKeys), DropAny("item")>>
AwsGlacierSync == [finds |-> AllKeys, ident |-> {"name"}, gap |-> FALSE]

AwsLambdaCreate == <<MakeOne("item"), SaveKeys(AllKeys)>>
AwsLambdaDelete == <<NeedKeys(AllKeys), DropOne("item")>>
AwsLambdaSync == [finds |-> AllKeys, ident |-> {"name"}, gap |-> FALSE]

\* Errors of the cloud are only logged.
AwsAuroraCreate == <<SaveKeys(AllKeys), TryToMake("item")>>
AwsAuroraDelete == <<NeedKeys(AllKeys), TryToDrop("item")>>
AwsAuroraSync == [finds |-> AllKeys, ident |-> {"name"}, gap |-> FALSE]

\* The place is the hosted zone, the name that of the record and its type.  What
\* discovery calls a record ends in a dot, which the form does not ask for.
AwsRoute53Create == <<MakeOne("item"), SaveKeys(AllKeys)>>
AwsRoute53Delete ==
    <<NeedKeys({"handler"}), MayGiveUp, NeedKeys({"name", "place"}), DropFirstListed("item")>>
AwsRoute53Sync ==
    [finds |-> AllKeys \cup {"alias"}, ident |-> {"alias"}, gap |-> FALSE]

\* Plans and selections have ids that AWS generates, and names that need not be
\* unique.  The vault of a plan is never deleted.
AwsBackupPlanCreate == <<UpsertOne("host"), MakeOne("item"), SaveKeys(AllKeys)>>
AwsBackupPlanDelete == <<NeedKeys(AllKeys), DropOne("item")>>
AwsBackupPlanSync == [finds |-> AllKeys, ident |-> {"name"}, gap |-> FALSE]

\* Discovery compares selection_name, a field no other script knows.
AwsBackupSelectionCreate == <<MakeOne("item"), SaveKeys(AllKeys)>>
AwsBackupSelectionDelete == <<NeedKeys(AllKeys), DropOne("item")>>
AwsBackupSelectionSync ==
    [finds |-> AllKeys \cup {"alias"}, ident |-> {"alias"}, gap |-> FALSE]

\* The field compared joins the name and the id that AWS generates.
AwsSecurityGroupCreate == <<MakeOne("item"), SaveKeys(AllKeys)>>
AwsSecurityGroupDelete == <<NeedKeys(AllKeys), DropOne("item")>>
AwsSecurityGroupSync == [finds |-> AllKeys, ident |-> {"name", "place"}, gap |-> FALSE]

\* The object stands for the network, its subnet and its environment; the field
\* compared is the id that AWS generates.
AwsVpcCreate == <<MakeOne("item"), SaveKeys(AllKeys)>>
AwsVpcDelete == <<NeedKeys(AllKeys), DropOne("item")>>
AwsVpcSync == [finds |-> AllKeys, ident |-> {"name", "place"}, gap |-> FALSE]

AwsRdsCreate == <<MakeOne("item"), SaveKeys(AllKeys)>>
AwsRdsDelete == <<NeedKeys(AllKeys), MayGiveUp, DropAny("item")>>
AwsRdsSync == [finds |-> AllKeys, ident |-> {"name"}, gap |-> FALSE]

\* An instance of an Aurora engine has a cluster below it.
AwsRdsClusterCreate == <<MakeOne("host"), MakeOne("item"), SaveKeys(AllKeys)>>
AwsRdsClusterDelete == <<NeedKeys(AllKeys), MayGiveUp, DropAny("item"), TryToDrop("host")>>

\* The name is the ARN that AWS returns, the alias the one typed.
AwsLoadBalancerCreate ==
    <<SaveKeys({"alias", "place", "handler"}), TryToMake("item"), SaveKeys({"name"})>>
AwsLoadBalancerDelete == <<NeedKeys(AllKeys), TryToDrop("item")>>
AwsLoadBalancerSync == [finds |-> AllKeys \cup {"alias"}, ident |-> {"alias"}, gap |-> FALSE]

\* Discovery also lists the stacks that were deleted: not modelled.
AwsCloudFormationCreate == <<MakeOne("item"), SaveKeys(AllKeys)>>
AwsCloudFormationDelete == <<NeedKeys(AllKeys), DropAny("item")>>
AwsCloudFormationSync == [finds |-> AllKeys, ident |-> {"name"}, gap |-> FALSE]

\* The name of a stack of this other blueprint is the time; it is not discovered.
CloudFormationStackCreate == <<MakeOne("item"), SaveKeys({"name", "place"})>>
CloudFormationStackDelete == <<NeedKeys({"name", "place"}), DropAny("item")>>

\* Discovery writes to the row that has the cluster's name, whatever became of it.
AwsEcsCreate == <<SaveKeys(AllKeys), MakeOne("item")>>
AwsEcsDelete == <<NeedKeys(AllKeys), DropOne("item")>>
AwsEcsSync == [finds |-> AllKeys, ident |-> {"name", "title"}, gap |-> FALSE]

\* A ClientError while it waits makes the script call resource.delete().
EksCreate == <<MayForget, MakeOne("item"), MayForget, SaveKeys(AllKeys), MayForget>>
EksDelete == <<NeedKeys(AllKeys), DropOne("item")>>
EksSync == [finds |-> AllKeys, ident |-> {"name", "title"}, gap |-> FALSE]
-----------------------------------------------------------------------------
(* Google: a name that is taken is refused, deleting what is absent an     *)
(* error.  The place is the project.                                       *)

\* The refusal is caught, and the firewall read back by its name.
GoogleFirewallCreate == <<UpsertOne("item"), SaveKeys(AllKeys)>>
GoogleFirewallDelete == <<NeedKeys(AllKeys), DropOne("item")>>
GoogleFirewallSync == [finds |-> AllKeys, ident |-> {"name"}, gap |-> FALSE]

GoogleBigtableCreate == <<SaveKeys(AllKeys), MakeOne("item")>>
GoogleBigtableDelete == <<NeedKeys(AllKeys), DropOne("item")>>
GoogleBigtableSync == [finds |-> AllKeys, ident |-> {"name"}, gap |-> FALSE]

\* Discovery leaves out the field that create.py has for the project.
GoogleSqlCreate == <<SaveKeys(AllKeys), CheckFree("item"), MakeOne("item")>>
GoogleSqlDelete == <<NeedKeys(AllKeys), DropOne("item")>>
GoogleSqlSync ==
    [finds |-> {"name", "alias", "handler"}, ident |-> {"name", "alias"}, gap |-> TRUE]

\* Discovery iterates over one project, which raises.
GoogleFunctionCreate == <<MakeOne("item"), SaveKeys(AllKeys)>>
GoogleFunctionDelete == <<NeedKeys({"name", "handler"}), DropOne("item")>>
GoogleFunctionSync == [finds |-> {}, ident |-> {"name"}, gap |-> FALSE]

\* Discovery writes to the row that has the bucket's name, whatever became of it.
GoogleStorageCreate == <<SaveKeys({"name", "handler"}), MakeOne("item")>>
GoogleStorageDelete == <<NeedKeys({"name", "handler"}), DropOne("item")>>
GoogleStorageSync ==
    [finds |-> {"name", "handler"}, ident |-> {"name", "title"}, gap |-> FALSE]

GcpStorageCreate == <<SaveKeys({"name", "handler"}), MakeOne("item")>>
GcpStorageDelete == <<NeedKeys({"name", "handler"}), DropOne("item")>>
GcpStorageSync == [finds |-> {"name", "handler"}, ident |-> {"name", "title"}, gap |-> FALSE]

\* A cluster that is not recorded, or not there, is a warning.  The row of its
\* orchestrator in CloudBolt is left out.  Discovery looks for the cluster's name
\* among active rows.
GkeCreate == <<SaveKeys(AllKeys), MakeOne("item")>>
GkeDelete == <<NeedOrQuit(AllKeys), DropAny("item")>>
GkeSync == [finds |-> AllKeys, ident |-> {"name", "active"}, gap |-> FALSE]

GkeLegacyCreate == <<SaveKeys(AllKeys), MakeOne("item")>>
GkeLegacyDelete == <<NeedKeys(AllKeys), DropOne("item")>>
-----------------------------------------------------------------------------
(* Others; where nothing tells objects of one name apart there is one      *)
(* place.                                                                  *)

\* The name of a service profile is unique in its organization, the place.
CiscoCreate == <<MakeOne("item"), SaveKeys({"name", "place"})>>
CiscoDelete == <<NeedKeys({"name", "place"}), DropOne("item")>>
CiscoSync == [finds |-> {"name", "place"}, ident |-> {"name", "place"}, gap |-> FALSE]

\* The place is the id that the directory generates.
Office365Create == <<MakeOne("item"), SaveKeys({"name", "place"})>>
Office365Delete == <<NeedKeys({"name", "place"}), DropOne("item")>>
Office365Sync == [finds |-> {"name", "place"}, ident |-> {"name"}, gap |-> FALSE]

OpenshiftCreate == <<MakeOne("item"), SaveKeys({"name"})>>
OpenshiftDelete == <<NeedKeys({"name"}), DropOne("item")>>
OpenshiftSync == [finds |-> {"name"}, ident |-> {"name"}, gap |-> FALSE]

CitrixZoneCreate == <<MakeOne("item"), SaveKeys({"name"})>>
CitrixZoneDelete == <<NeedKeys({"name"}), DropOne("item")>>
CitrixZoneSync == [finds |-> {"name"}, ident |-> {"name", "title"}, gap |-> FALSE]

\* The place is the record's id; zone and type are its name, which need not be
\* unique.  Without a row for the zone no field is saved.
CitrixRecordCreate == <<MakeOne("item"), MayGiveUp, SaveKeys({"name", "place"})>>
CitrixRecordDelete == <<NeedKeys({"name", "place"}), DropOne("item")>>
CitrixRecordSync ==
    [finds |-> {"name", "place"}, ident |-> {"name", "title"}, gap |-> FALSE]
-----------------------------------------------------------------------------
LOCAL Blueprint(scope, create, delete, sync) ==
    [scope |-> scope, create |-> create, delete |-> delete,
     finds |-> sync.finds, ident |-> sync.ident, gap |-> sync.gap]

\* A blueprint without a sync.py.
LOCAL NoSync == [finds |-> {}, ident |-> {}, gap |-> FALSE]

AzureBlueprints ==
    {Blueprint("fresh", AzureMysqlCreate, AzureMysqlDelete, AzureMysqlSync),
     Blueprint("home", AzureMariadbCreate, AzureMariadbDelete, AzureMariadbSync),
     Blueprint("home", AzurePostgresCreate, AzurePostgresDelete, AzurePostgresSync),
     Blueprint("home", AzureSqlDatabaseCreate, AzureSqlDatabaseDelete, AzureSqlDatabaseSync),
     Blueprint("global", AzureSqlServerCreate, AzureSqlServerDelete, AzureSqlServerSync),
     Blueprint("global", AzureRedisCreate, AzureRedisDelete, AzureRedisSync),
     Blueprint("global", AzureStorageCreate, AzureStorageDelete, AzureStorageSync),
     Blueprint("global", AzureCosmosCreate, AzureCosmosDelete, AzureCosmosSync),
     Blueprint("place", AzureQueueCreate, AzureQueueDelete, AzureQueueSync),
     Blueprint("place", AzureContainerCreate, AzureContainerDelete, AzureContainerSync),
     Blueprint("place", AzureFileCreate, AzureFileDelete, AzureFileSync),
     Blueprint("global", AzureBlobCreate, AzureBlobDelete, AzureBlobSync),
     Blueprint("place", AzureNsgCreate, AzureNsgDelete, AzureNsgSync),
     Blueprint("global", AzureWebAppCreate, AzureWebAppDelete, AzureWebAppSync),
     Blueprint("place", AzureSecurityRuleCreate, AzureSecurityRuleDelete, AzureSecurityRuleSync),
     Blueprint("place", AzureVirtualNetworkCreate, AzureVirtualNetworkDelete,
               AzureVirtualNetworkSync),
     Blueprint("place", AzureDatabricksCreate, AzureDatabricksDelete, AzureDatabricksSync),
     Blueprint("global", AzureDataFactoryCreate, AzureDataFactoryDelete, AzureDataFactorySync),
     Blueprint("place", AzureK8sCreate, AzureK8sDelete, AzureK8sSync)}

AwsBlueprints ==
    {Blueprint("flat", AwsS3BucketCreate, AwsS3BucketDelete, AwsS3BucketSync),
     Blueprint("place", AwsMysqlCreate, AwsMysqlDelete, AwsMysqlSync),
     Blueprint("place", MariaDbCreate, MariaDbDelete, MariaDbSync),
     Blueprint("place", AwsDynamoDbCreate, AwsDynamoDbDelete, AwsDynamoDbSync),
     Blueprint("place", AwsElasticCacheCreate, AwsElasticCacheDelete, AwsElasticCacheSync),
     Blueprint("place", AwsRedshiftCreate, AwsRedshiftDelete, AwsRedshiftSync),
     Blueprint("place", AwsDocumentDbCreate, AwsDocumentDbDelete, AwsDocumentDbSync),
     Blueprint("fresh", EfsCreate, EfsDelete, EfsSync),
     Blueprint("fresh", AwsEbsCreate, AwsEbsDelete, AwsEbsSync),
     Blueprint("fresh", AwsFsxCreate, AwsFsxDelete, AwsFsxSync),
     Blueprint("place", AwsGlacierCreate, AwsGlacierDelete, AwsGlacierSync),
     Blueprint("place", AwsLambdaCreate, AwsLambdaDelete, AwsLambdaSync),
     Blueprint("place", AwsAuroraCreate, AwsAuroraDelete, AwsAuroraSync),
     Blueprint("fresh", AwsBackupPlanCreate, AwsBackupPlanDelete, AwsBackupPlanSync),
     Blueprint("fresh", AwsBackupSelectionCreate, AwsBackupSelectionDelete,
               AwsBackupSelectionSync),
     Blueprint("fresh", AwsSecurityGroupCreate, AwsSecurityGroupDelete, AwsSecurityGroupSync),
     Blueprint("fresh", AwsVpcCreate, AwsVpcDelete, AwsVpcSync),
     Blueprint("place", AwsRdsCreate, AwsRdsDelete, AwsRdsSync),
     Blueprint("place", AwsRdsClusterCreate, AwsRdsClusterDelete, AwsRdsSync),
     Blueprint("place", AwsLoadBalancerCreate, AwsLoadBalancerDelete, AwsLoadBalancerSync),
     Blueprint("place", AwsCloudFormationCreate, AwsCloudFormationDelete,
               AwsCloudFormationSync),
     Blueprint("fresh", CloudFormationStackCreate, CloudFormationStackDelete, NoSync),
     Blueprint("place", AwsEcsCreate, AwsEcsDelete, AwsEcsSync),
     Blueprint("place", EksCreate, EksDelete, EksSync)}

DnsBlueprints == {Blueprint("place", AwsRoute53Create, AwsRoute53Delete, AwsRoute53Sync)}

GoogleBlueprints ==
    {Blueprint("place", GoogleFirewallCreate, GoogleFirewallDelete, GoogleFirewallSync),
     Blueprint("place", GoogleBigtableCreate, GoogleBigtableDelete, GoogleBigtableSync),
     Blueprint("place", GoogleSqlCreate, GoogleSqlDelete, GoogleSqlSync),
     Blueprint("place", GoogleFunctionCreate, GoogleFunctionDelete, GoogleFunctionSync),
     Blueprint("flat", GoogleStorageCreate, GoogleStorageDelete, GoogleStorageSync),
     Blueprint("flat", GcpStorageCreate, GcpStorageDelete, GcpStorageSync),
     Blueprint("place", GkeCreate, GkeDelete, GkeSync),
     Blueprint("place", GkeLegacyCreate, GkeLegacyDelete, NoSync)}

OtherBlueprints ==
    {Blueprint("place", CiscoCreate, CiscoDelete, CiscoSync),
     Blueprint("fresh", Office365Create, Office365Delete, Office365Sync),
     Blueprint("flat", OpenshiftCreate, OpenshiftDelete, OpenshiftSync),
     Blueprint("flat", CitrixZoneCreate, CitrixZoneDelete, CitrixZoneSync),
     Blueprint("fresh", CitrixRecordCreate, CitrixRecordDelete, CitrixRecordSync)}

AllBlueprints == AzureBlueprints \cup AwsBlueprints \cup DnsBlueprints
                 \cup GoogleBlueprints \cup OtherBlueprints
=============================================================================
