--------------------------- MODULE ContentActions ---------------------------
(***************************************************************************)
(* The scripts of the management directories below src/blueprints as data  *)
(* for Contents: the calls of a script, and where its result goes.         *)
(***************************************************************************)
EXTENDS Sequences

LOCAL Here(steps) == [steps |-> steps, dest |-> "here"]
LOCAL Into(dest, steps) == [steps |-> steps, dest |-> dest]
-----------------------------------------------------------------------------
(* Objects of a GCP bucket; every error is caught and is a failure. *)

GcpCopyBlob == Into("any", <<"Copy">>)
GcpMoveBlob == Into("any", <<"Copy", "Remove">>)
GcpRenameBlob == Into("name", <<"Copy", "Remove">>)
GcpDeleteBlob == Here(<<"Remove">>)
GcpUploadBlob == Here(<<"Put">>)
GcpDownloadBlob == Here(<<"Need">>)
Gcp == {GcpCopyBlob, GcpMoveBlob, GcpRenameBlob, GcpDeleteBlob, GcpUploadBlob, GcpDownloadBlob}

\* The older blueprint; its upload_blob.py uses a name it never defines and raises.
GoogleCopyBlob == Into("other", <<"Need", "Copy">>)
GoogleMoveBlob == Into("other", <<"Need", "Copy", "Remove">>)
GoogleRenameBlob == Into("name", <<"Need", "Copy", "RemoveOther">>)
GoogleDeleteBlob == Here(<<"Need", "Remove">>)
GoogleDownloadBlob == Here(<<"Need">>)
Google == {GoogleCopyBlob, GoogleMoveBlob, GoogleRenameBlob, GoogleDeleteBlob, GoogleDownloadBlob}

(* Blobs of an Azure container; a deleted blob keeps its row. *)

AzureAddBlob == Here(<<"Put", "MoveRow">>)
AzureDeleteBlob == Here(<<"Remove">>)
AzureListBlobs == Here(<<"List", "ShowMoved">>)
AzureDownloadBlob == Here(<<"Need">>)
AzureContainer == {AzureAddBlob, AzureDeleteBlob, AzureListBlobs, AzureDownloadBlob}

(* Objects of an S3 bucket; the listing is cut off at its first page. *)

S3CopyObject == Into("steve", <<"Copy">>)
S3DeleteMultiple == Here(<<"RemoveAny">>)
S3DeleteSingle == Here(<<"Need", "RemoveAny", "DropRow">>)
S3Download == Here(<<"Need">>)
S3ListObjects == Here(<<"List", "ShowAll">>)
S3UploadFile == Here(<<"Put">>)
S3Upload == Here(<<"Put">>)
S3 == {S3CopyObject, S3DeleteMultiple, S3DeleteSingle, S3Download, S3ListObjects, S3UploadFile,
       S3Upload}

(* Snapshots of a database; their names are unique in the account. *)

AuroraCreateSnapshot == Here(<<"NewUnique">>)
AuroraDeleteSnapshot == Here(<<"Remove">>)
AuroraListSnapshots == Here(<<"List", "ShowOnce">>)
Aurora == {AuroraCreateSnapshot, AuroraDeleteSnapshot, AuroraListSnapshots}

\* A refusal of RDS is caught and forgotten.
MariaCreateSnapshot == Here(<<"TryNewUnique">>)
MariaDeleteSnapshot == Here(<<"TryRemove", "DropAnyRow">>)
MariaListSnapshots == Here(<<"List", "ShowOnce">>)
Maria == {MariaCreateSnapshot, MariaDeleteSnapshot, MariaListSnapshots}

(* Volumes attached to an instance: a volume's row says to which.  Snapshots of a *)
(* volume are named by EC2.                                                       *)

EbsAttach == Here(<<"NewUnique", "MoveRow">>)
EbsDetach == Here(<<"NeedRow", "Remove", "DropRow">>)
Ebs == {EbsAttach, EbsDetach}

EbsTakeSnapshot == Here(<<"NewUnique">>)
EbsSaveSnapshots == Here(<<"List", "ShowMoved">>)
EbsSnapshots == {EbsTakeSnapshot, EbsSaveSnapshots}

(* Databases of a Cloud SQL instance; the rows are the list in one field of it. *)

SqlCreateDatabase == Here(<<"Free", "New", "List", "ShowAll">>)
SqlDeleteDatabase == Here(<<"Remove", "List", "ShowAll">>)
CloudSql == {SqlCreateDatabase, SqlDeleteDatabase}

(* Services of an ECS cluster. *)

EcsCreateService == Here(<<"New", "AddRowOnce">>)
Ecs == {EcsCreateService}

(* Pipelines of a data factory: each run is a further row of the pipeline's name. *)

FactoryListPipelines == Here(<<"List", "ShowNew">>)
FactoryRunPipeline == Here(<<"Need", "NewRow">>)
FactoryRerunPipeline == Here(<<"NeedRow", "Need", "NewRow">>)
FactoryDeletePipelines == Here(<<"NeedRow", "RemoveAny", "DropRow">>)
DataFactory == {FactoryListPipelines, FactoryRunPipeline, FactoryRerunPipeline,
                FactoryDeletePipelines}

AllFamilies == {Gcp, Google, AzureContainer, S3, Aurora, Maria, Ebs, EbsSnapshots, CloudSql, Ecs,
                DataFactory}
=============================================================================
