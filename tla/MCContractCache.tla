-------------------------- MODULE MCContractCache --------------------------
EXTENDS ContractCache
=============================================================================
