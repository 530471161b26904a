---------------------------- MODULE MCSyncPush ----------------------------
EXTENDS SyncPush

=============================================================================
