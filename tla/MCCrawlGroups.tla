---------------------------- MODULE MCCrawlGroups ----------------------------
\* Instances of CrawlGroups for TLC; the .cfg files give every constant model values.
EXTENDS CrawlGroups
=============================================================================
