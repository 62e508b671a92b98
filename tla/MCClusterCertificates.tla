----------------------- MODULE MCClusterCertificates -----------------------
EXTENDS ClusterCertificates

\* Two of the certificates, in the order of the list: one that goes into the
\* bootstrap data, and the one that is in no file.
MCPurposes == <<"ca", "authproxy">>
=============================================================================
