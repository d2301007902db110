-------------------------- MODULE MCStorageUploads --------------------------
EXTENDS StorageUploads
=============================================================================
